---- MODULE Spec2Model ----
(***************************************************************************)
(* Decorator-to-route compilation and guarded middleware chain of the      *)
(* Hono backend template: decorators fill the metadata store, the route    *)
(* builder turns the metadata of a handler into a middleware chain, and a  *)
(* request walks the chain stage by stage.                                 *)
(***************************************************************************)
EXTENDS Integers, Sequences, FiniteSets, TLC

(* ------------------------------ bounds -------------------------------- *)

\* number of guard decorators stacked on the handler method
MaxGuardDecorators == 2

(* ------------------------------ domains ------------------------------- *)

\* role lists given to @RequireRole; a role name is one word of the error
\* message it is joined into
RoleArgs == {{"admin"}, {"Unauthorized"}}

\* permission lists given to @RequirePermission / @RequireAnyPermission
PermissionArgs == {{"users:read", "users:write"}}

\* JWT claims. rolesKind/permsKind say what the claim holds: nothing, a
\* list, or a value that is not a list (a number)
AuthPayload(role, rolesKind, roles, permsKind, perms) ==
  [role |-> role, rolesKind |-> rolesKind, roles |-> roles,
   permsKind |-> permsKind, permissions |-> perms]

NoPayload == AuthPayload("", "absent", {}, "absent", {})

Payloads ==
  { AuthPayload(r, "absent", {}, "absent", {}) : r \in {"admin", "other", ""} }
  \cup { AuthPayload("other", "list", rs, "absent", {}) :
           rs \in {{}, {"admin"}, {"admin", "support", "other"}} }
  \cup { AuthPayload("other", "bad", {}, "absent", {}) }
  \cup { AuthPayload("other", "absent", {}, "list", ps) :
           ps \in {{"users:read"}, {"users:read", "users:write"}} }
  \cup { AuthPayload("other", "absent", {}, "bad", {}) }

\* the Authorization header of a request
Tokens ==
  { [kind |-> k, payload |-> NoPayload] :
      k \in {"none", "expired", "malformed", "other"} }
  \cup { [kind |-> "valid", payload |-> p] : p \in Payloads }

\* c.get('user'): undefined, or the stored payload
NoUser == [present |-> FALSE, payload |-> NoPayload]

UserOf(p) == [present |-> TRUE, payload |-> p]

\* an Error: the first word of its message and the names joined into it
Err(prefix, reason, names) == [prefix |-> prefix, reason |-> reason, names |-> names]

NoError == Err("none", "", {})

\* error.message.includes(word)
MessageIncludes(err, word) == err.prefix = word \/ word \in err.names

\* c.json(body, status)
Json(http, code) == [http |-> http, status |-> "error", code |-> code]

NoResponse == [http |-> 0, status |-> "", code |-> ""]

Ok200 == [http |-> 200, status |-> "success", code |-> ""]

(* --------------------------- token verification ----------------------- *)

\* jwt.verify(token, env.JWT_SECRET): the claims, or the class of the error
JwtVerify(token) ==
  CASE token.kind = "valid"     -> [ok |-> TRUE, payload |-> token.payload, errClass |-> ""]
    [] token.kind = "expired"   -> [ok |-> FALSE, payload |-> NoPayload, errClass |-> "TokenExpiredError"]
    [] token.kind = "malformed" -> [ok |-> FALSE, payload |-> NoPayload, errClass |-> "JsonWebTokenError"]
    [] OTHER                    -> [ok |-> FALSE, payload |-> NoPayload, errClass |-> "Error"]

\* if (payload.role && !payload.roles) payload.roles = [payload.role]
NormalizeRoles(p) ==
  IF p.role # "" /\ p.rolesKind = "absent"
    THEN [p EXCEPT !.rolesKind = "list", !.roles = {p.role}]
    ELSE p

(* ------------------------------- guards ------------------------------- *)

\* GuardMetadata {name, options: {roles, permissions, requireAll}};
\* requireAll is "true", "false" or "undefined"
Guard(name, roles, permissions, requireAll) ==
  [name |-> name, roles |-> roles, permissions |-> permissions,
   requireAll |-> requireAll]

\* results of a guard check: the returned boolean or the thrown Error, and
\* the user left in the request context
Returns(b, user) == [ret |-> IF b THEN "true" ELSE "false", err |-> NoError, user |-> user]

Throws(err, user) == [ret |-> "throw", err |-> err, user |-> user]

checkAuth(user, token) ==
  IF user.present THEN Returns(TRUE, user)
  ELSE IF token.kind = "none"
    THEN Throws(Err("Unauthorized", "No token provided", {}), user)
  ELSE LET v == JwtVerify(token) IN
    IF v.ok THEN Returns(TRUE, UserOf(NormalizeRoles(v.payload)))
    ELSE IF v.errClass = "TokenExpiredError"
      THEN Throws(Err("Unauthorized", "Token has expired", {}), user)
    ELSE IF v.errClass = "JsonWebTokenError"
      THEN Throws(Err("Unauthorized", "Invalid token", {}), user)
    ELSE Throws(Err("Unauthorized", "Authentication failed", {}), user)

\* user.roles || (user.role ? [user.role] : [])
UserRoles(p) ==
  IF p.rolesKind = "list" THEN p.roles
  ELSE IF p.role # "" THEN {p.role} ELSE {}

\* requiredRoles.every(...) / requiredRoles.some(...)
HasRequired(required, owned, requireAll) ==
  IF requireAll THEN required \subseteq owned
  ELSE required \cap owned # {}

\* requireAll defaulting to true for roles as well
RoleRequireAllByDefault(requireAll) == requireAll # "false"

\* default parameter value: requireAll = false
RoleRequireAll(requireAll) == requireAll = "true"

checkRole(user, requiredRoles, requireAll) ==
  IF requiredRoles = {} THEN Returns(TRUE, user)
  ELSE IF ~user.present
    THEN Throws(Err("Unauthorized", "User not found", {}), user)
  ELSE IF user.payload.rolesKind = "bad"
    THEN Throws(Err("TypeError", "userRoles.includes is not a function", {}), user)
  ELSE IF ~HasRequired(requiredRoles, UserRoles(user.payload), RoleRequireAll(requireAll))
    THEN Throws(Err("Forbidden",
                    IF RoleRequireAll(requireAll) THEN "Requires all roles"
                                                  ELSE "Requires one of",
                    requiredRoles), user)
  ELSE Returns(TRUE, user)

\* user.permissions || []
UserPermissions(p) == IF p.permsKind = "list" THEN p.permissions ELSE {}

\* requireAll defaulting to false for permissions as well
PermissionRequireAnyByDefault(requireAll) == requireAll = "true"

\* default parameter value: requireAll = true
PermissionRequireAll(requireAll) == requireAll # "false"

checkPermission(user, requiredPermissions, requireAll) ==
  IF requiredPermissions = {} THEN Returns(TRUE, user)
  ELSE IF ~user.present
    THEN Throws(Err("Unauthorized", "User not found", {}), user)
  ELSE IF user.payload.permsKind = "bad"
    THEN Throws(Err("TypeError", "userPermissions.includes is not a function", {}), user)
  ELSE IF ~HasRequired(requiredPermissions, UserPermissions(user.payload),
                       PermissionRequireAll(requireAll))
    THEN Throws(Err("Forbidden",
                    IF PermissionRequireAll(requireAll) THEN "Missing permissions"
                                                        ELSE "Requires one of",
                    IF PermissionRequireAll(requireAll)
                      THEN requiredPermissions \ UserPermissions(user.payload)
                      ELSE requiredPermissions), user)
  ELSE Returns(TRUE, user)

\* a check that refuses the guards it does not know
checkGuardFailClosed(user, token, guard) ==
  CASE guard.name = "AuthGuard"       -> checkAuth(user, token)
    [] guard.name = "RoleGuard"       -> checkRole(user, guard.roles, guard.requireAll)
    [] guard.name = "PermissionGuard" -> checkPermission(user, guard.permissions, guard.requireAll)
    [] OTHER                          -> Returns(FALSE, user)

checkGuard(user, token, guard) ==
  CASE guard.name = "AuthGuard"       -> checkAuth(user, token)
    [] guard.name = "RoleGuard"       -> checkRole(user, guard.roles, guard.requireAll)
    [] guard.name = "PermissionGuard" -> checkPermission(user, guard.permissions, guard.requireAll)
    [] OTHER                          -> Returns(TRUE, user)

(* ------------------------- guard decorators --------------------------- *)

\* a decorator written on the handler method: its name and its arguments
Dec(kind, names, list) == [kind |-> kind, names |-> names, list |-> list]

GuardDecorators ==
  { Dec("RequireAuth", {}, <<>>) }
  \cup { Dec("RequireRole", r, <<>>) : r \in RoleArgs }
  \cup { Dec("RequireAllRoles", {"admin", "support"}, <<>>) }
  \cup { Dec("RequirePermission", p, <<>>) : p \in PermissionArgs }
  \cup { Dec("RequireAnyPermission", p, <<>>) : p \in PermissionArgs }
  \cup { Dec("UseGuards", {}, <<"CustomGuard">>) }

\* the other decorators of a handler, each written once or not at all
MiddlewareDecorators ==
  { <<>>, <<Dec("Middleware", {}, <<"AuthMiddleware">>)>>,
    <<Dec("Middleware", {}, <<"AuthMiddleware", "RequireRole">>)>> }

RateLimitDecorators == { <<>>, <<Dec("RateLimit", {}, <<>>)>> }

PublicDecorators == { <<>>, <<Dec("Public", {}, <<>>)>> }

\* [...existingGuards, ...guards.map(Guard => ({ name: Guard.name }))]
UseGuards(existingGuards, classNames) ==
  existingGuards \o [i \in 1..Len(classNames) |->
                       Guard(classNames[i], {}, {}, "undefined")]

RequireAuth(guards) == Append(guards, Guard("AuthGuard", {}, {}, "undefined"))

RequireRole(guards, roles) ==
  Append(guards, Guard("RoleGuard", roles, {}, "undefined"))

RequireAllRoles(guards, roles) ==
  Append(guards, Guard("RoleGuard", roles, {}, "true"))

RequirePermission(guards, permissions) ==
  Append(guards, Guard("PermissionGuard", {}, permissions, "true"))

RequireAnyPermission(guards, permissions) ==
  Append(guards, Guard("PermissionGuard", {}, permissions, "false"))

\* @Middleware(...): [...existing, ...normalizedFns]
Middleware(existing, middlewares) == existing \o middlewares

\* the guard list after applying decorator d
GuardsAfter(guards, d) ==
  CASE d.kind = "RequireAuth"          -> RequireAuth(guards)
    [] d.kind = "RequireRole"          -> RequireRole(guards, d.names)
    [] d.kind = "RequireAllRoles"      -> RequireAllRoles(guards, d.names)
    [] d.kind = "RequirePermission"    -> RequirePermission(guards, d.names)
    [] d.kind = "RequireAnyPermission" -> RequireAnyPermission(guards, d.names)
    [] d.kind = "UseGuards"            -> UseGuards(guards, d.list)
    [] OTHER                           -> guards

(* ---------------------------- route builder --------------------------- *)

\* one entry of the middleware chain handed to app[method](path, ...)
Stage(kind, mw) == [kind |-> kind, mw |-> mw]

StagesOf(kind, mws) == [i \in 1..Len(mws) |-> Stage(kind, mws[i])]

\* a chain that runs the guards before the middlewares and the limiter
BuildChainGuardsFirst(public, rateLimit, classMiddlewares, methodMiddlewares, guards) ==
  (IF rateLimit THEN <<Stage("rateLimitFlag", "")>> ELSE <<>>)
  \o (IF Len(guards) > 0 THEN <<Stage("guards", "")>> ELSE <<>>)
  \o (IF public THEN <<>> ELSE StagesOf("classMw", classMiddlewares))
  \o (IF public THEN <<>> ELSE StagesOf("methodMw", methodMiddlewares))
  \o (IF rateLimit THEN <<Stage("rateLimit", "")>> ELSE <<>>)
  \o <<Stage("handler", "")>>

\* registerRoute: the chain built from the metadata of one handler
BuildChain(public, rateLimit, classMiddlewares, methodMiddlewares, guards) ==
  (IF rateLimit THEN <<Stage("rateLimitFlag", "")>> ELSE <<>>)
  \o (IF public THEN <<>> ELSE StagesOf("classMw", classMiddlewares))
  \o (IF public THEN <<>> ELSE StagesOf("methodMw", methodMiddlewares))
  \o (IF rateLimit THEN <<Stage("rateLimit", "")>> ELSE <<>>)
  \o (IF Len(guards) > 0 THEN <<Stage("guards", "")>> ELSE <<>>)
  \o <<Stage("handler", "")>>

(* ------------------------- middleware functions ----------------------- *)

\* what a stage does: call next(), answer, or throw; and the context user
CallNext(user) == [next |-> TRUE, resp |-> NoResponse, err |-> NoError, user |-> user]

Respond(resp, user) == [next |-> FALSE, resp |-> resp, err |-> NoError, user |-> user]

Throw(err, user) == [next |-> FALSE, resp |-> NoResponse, err |-> err, user |-> user]

\* an AuthMiddleware that answers a missing token with a code of its own
AuthMiddlewareMissingTokenCode(user, token) ==
  IF token.kind = "none" THEN Respond(Json(401, "MISSING_TOKEN"), user)
  ELSE LET v == JwtVerify(token) IN
    IF v.ok THEN CallNext(UserOf(NormalizeRoles(v.payload)))
    ELSE IF v.errClass = "TokenExpiredError"
      THEN Respond(Json(401, "TOKEN_EXPIRED"), user)
    ELSE IF v.errClass = "JsonWebTokenError"
      THEN Respond(Json(401, "INVALID_TOKEN"), user)
    ELSE Respond(Json(401, "AUTHENTICATION_FAILED"), user)

\* an AuthMiddleware that lets a request without token through
AuthMiddlewareOptional(user, token) ==
  IF token.kind = "none" THEN CallNext(user)
  ELSE LET v == JwtVerify(token) IN
    IF v.ok THEN CallNext(UserOf(NormalizeRoles(v.payload)))
    ELSE IF v.errClass = "TokenExpiredError"
      THEN Respond(Json(401, "TOKEN_EXPIRED"), user)
    ELSE IF v.errClass = "JsonWebTokenError"
      THEN Respond(Json(401, "INVALID_TOKEN"), user)
    ELSE Respond(Json(401, "AUTHENTICATION_FAILED"), user)

\* AuthMiddleware.use
AuthMiddlewareUse(user, token) ==
  IF token.kind = "none" THEN Respond(Json(401, "UNAUTHORIZED"), user)
  ELSE LET v == JwtVerify(token) IN
    IF v.ok THEN CallNext(UserOf(NormalizeRoles(v.payload)))
    ELSE IF v.errClass = "TokenExpiredError"
      THEN Respond(Json(401, "TOKEN_EXPIRED"), user)
    ELSE IF v.errClass = "JsonWebTokenError"
      THEN Respond(Json(401, "INVALID_TOKEN"), user)
    ELSE Respond(Json(401, "AUTHENTICATION_FAILED"), user)

\* the middleware returned by RequireRole(...roles) of auth.middleware
RequireRoleMiddleware(user, roles) ==
  IF ~user.present THEN Respond(Json(401, "UNAUTHORIZED"), user)
  ELSE IF user.payload.rolesKind = "bad"
    THEN Throw(Err("TypeError", "userRoles.includes is not a function", {}), user)
  ELSE IF roles \cap UserRoles(user.payload) = {}
    THEN Respond(Json(403, "FORBIDDEN"), user)
  ELSE CallNext(user)

\* a class-level or method-level middleware, by name
UseMiddleware(mw, user, token) ==
  IF mw = "AuthMiddleware" THEN AuthMiddlewareUse(user, token)
  ELSE RequireRoleMiddleware(user, {"admin"})

\* a loop that checks every guard and reports the last failure
GuardLoopAggregating(ret, idx, n) ==
  IF idx < n THEN "running"
  ELSE IF ret = "throw" THEN "thrown"
  ELSE IF ret = "false" THEN "false"
  ELSE "true"

\* one iteration of the loop of executeGuards: the state of the loop after
\* guard number idx of n returned ret
GuardLoop(ret, idx, n) ==
  IF ret = "throw" THEN "thrown"
  ELSE IF ret = "false" THEN "false"
  ELSE IF idx = n THEN "true"
  ELSE "running"

\* guardMiddleware: what it does with the outcome of executeGuards
GuardMiddlewareResult(state, err, user) ==
  IF state = "true" THEN CallNext(user)
  ELSE IF state = "false" THEN Respond(Json(403, "FORBIDDEN"), user)
  ELSE IF MessageIncludes(err, "Unauthorized") THEN Respond(Json(401, "UNAUTHORIZED"), user)
  ELSE IF MessageIncludes(err, "Forbidden") THEN Respond(Json(403, "FORBIDDEN"), user)
  ELSE Throw(err, user)

\* app.onError of the server
onError(err) ==
  IF MessageIncludes(err, "CORS") \/ MessageIncludes(err, "origin")
    THEN Json(403, "CORS_ERROR")
    ELSE Json(500, "INTERNAL_ERROR")

(* -------------------------------- state ------------------------------- *)

VARIABLES
  phase,          \* "define", "build", "ready", "inflight", "done"; "direct" for a direct call of executeGuards
  declared,       \* decorators written on the handler method, top to bottom
  classDeclared,  \* middlewares of the class-level @Middleware, none if <<>>
  applyIdx,       \* position in declared of the next decorator to run
  guardsMeta,     \* metadata GUARDS of the handler
  methodMws,      \* metadata MIDDLEWARES of the handler
  classMws,       \* metadata MIDDLEWARES of the class
  rateLimitMeta,  \* metadata RATE_LIMIT of the handler is defined
  isPublic,       \* metadata isPublic of the handler
  chain,          \* the middleware chain registered for the route
  token,          \* credential of the request in flight
  pc,             \* position in chain of the stage that runs next
  ctxUser,        \* c.get('user')
  ctxFlag,        \* c.get('hasDecoratorRateLimit')
  guardIdx,       \* position of the loop of executeGuards
  guardState,     \* "running", or how executeGuards ended: "true", "false", "thrown"
  response,       \* the response of the request
  thrown,         \* the error that left the chain for app.onError
  ran,            \* history: the stages that ran for this request
  guardsRun,      \* history: the guards checked for this request
  failedAt,       \* history: position of the first guard that failed, 0 if none
  lastGuard,      \* history: the last guard check, its input and its result
  handlerReached, \* history: the handler stage ran
  denied,         \* history: a stage before the handler answered or threw
  signature,      \* parameter decorators written on the handler, by parameter index
  paramIdx,       \* number of parameters whose decorator has not run yet
  params,         \* metadata PARAMS of the handler
  instanceCtx,    \* controllerInstance['__ctx']: the request bound, 0 if the property is absent
  reqs,           \* the requests at the route handler, by request number
  routes,         \* metadata ROUTES of the controller class
  controllerMeta, \* metadata CONTROLLER of the controller class is defined
  platform,       \* the platform argument of build, "undefined" when not given
  app,            \* the routes registered on the Hono app build returns
  built,          \* build has returned
  lookup,         \* the last request sent to the app: its path, the route matched, the response
  impl,           \* the Container at work: "core/container.ts" or "part_002"
  paramTypes,     \* metadata design:paramtypes, by class
  singletonMeta,  \* the classes whose metadata singleton is true
  singletons,     \* Container.singletons: the cached instance, by token
  factories,      \* Container.factories: the tokens that have a factory
  resolutionStack,\* Container.resolutionStack
  serial,         \* number of instances made so far
  constructed,    \* history: the classes whose constructor the container has called
  resolved,       \* what the last call of resolve from outside returned or threw
  clock,          \* Date.now(), and the time of the Redis server
  zset,           \* the sorted set of the rate-limit key in Redis: its members with their scores
  expireAt,       \* the time after which Redis drops the rate-limit key, 0 without a key
  pipelines,      \* the pipelines sent on the Redis connection and not executed yet, first sent first
  checks,         \* the requests at the rate limiter, by request number
  options,        \* the options given to @Retry
  attempt,        \* the loop variable of the wrapper of @Retry
  lastError,      \* lastError of the wrapper of @Retry
  retryPc,        \* where the wrapper of @Retry is: "invoke", "wait", "returned", "thrown"
  invocations,    \* history: how each invocation of the wrapped method ended
  waits,          \* history: the waitTime of each setTimeout, with the clock of its end
  controllerArgs, \* the arguments of @Controller: basePath and options
  routePath,      \* the path argument of the route decorator
  basePath,       \* basePath of the metadata CONTROLLER
  registered,     \* the path of the route on the Hono app
  queue,          \* the messages in the RabbitMQ queue, oldest first
  deliveries,     \* history: the number of deliveries to handleMessage, by message
  deadLetter,     \* the messages rejected without requeue
  acked,          \* the messages acknowledged
  store,          \* the value of the cache key in Redis, "null" if absent
  callers,        \* the calls of cache.getOrSet, by call number
  factoryCalls,   \* history: the number of invocations of the factory
  db,             \* this.db of the service instance
  txCalls,        \* the calls of the @Transaction method, by call number
  txSerial        \* number of transactions begun so far

chainVars == <<phase, declared, classDeclared, applyIdx, guardsMeta, methodMws,
               classMws, rateLimitMeta, isPublic, chain, token, pc, ctxUser,
               ctxFlag, guardIdx, guardState, response, thrown, ran, guardsRun,
               failedAt, lastGuard, handlerReached, denied>>

handlerVars == <<signature, paramIdx, params, instanceCtx, reqs>>

buildVars == <<routes, controllerMeta, platform, app, built, lookup>>

registryVars == <<impl, paramTypes, singletonMeta>>

containerVars == <<registryVars, singletons, factories, resolutionStack,
                   serial, constructed, resolved>>

limiterVars == <<clock, zset, expireAt, pipelines, checks>>

retryVars == <<options, attempt, lastError, retryPc, invocations, waits>>

pathVars == <<controllerArgs, routePath, basePath, registered>>

consumerVars == <<queue, deliveries, deadLetter, acked>>

cacheVars == <<store, callers, factoryCalls>>

txVars == <<db, txCalls, txSerial>>

serviceVars == <<limiterVars, retryVars, pathVars, consumerVars, cacheVars, txVars>>

routingVars == <<chainVars, handlerVars, buildVars, containerVars>>

\* the variables the middleware chain, the route handler, build and the
\* container leave alone
notChainVars == <<handlerVars, buildVars, containerVars, serviceVars>>

notHandlerVars == <<chainVars, buildVars, containerVars, serviceVars>>

notBuildVars == <<chainVars, handlerVars, containerVars, serviceVars>>

notContainerVars == <<chainVars, handlerVars, buildVars, serviceVars>>

\* the variables the rate limiter, @Retry, the route path, the consumer,
\* the cache and @Transaction leave alone
notLimiterVars == <<routingVars, retryVars, pathVars, consumerVars, cacheVars, txVars>>

notRetryVars == <<routingVars, limiterVars, pathVars, consumerVars, cacheVars, txVars>>

notPathVars == <<routingVars, limiterVars, retryVars, consumerVars, cacheVars, txVars>>

notConsumerVars == <<routingVars, limiterVars, retryVars, pathVars, cacheVars, txVars>>

notCacheVars == <<routingVars, limiterVars, retryVars, pathVars, consumerVars, txVars>>

notTxVars == <<routingVars, limiterVars, retryVars, pathVars, consumerVars, cacheVars>>

vars == <<routingVars, serviceVars>>

metaVars == <<guardsMeta, methodMws, classMws, rateLimitMeta, isPublic>>

declVars == <<declared, classDeclared>>

guardVars == <<guardIdx, guardState, guardsRun, failedAt, lastGuard>>

NoGuardCheck ==
  [idx |-> 0, guard |-> Guard("", {}, {}, "undefined"), before |-> NoUser,
   ret |-> "", err |-> NoError, after |-> NoUser]

\* sequences over S of length at most n
RECURSIVE SeqsUpTo(_, _)
SeqsUpTo(S, n) ==
  IF n = 0 THEN {<<>>}
  ELSE LET shorter == SeqsUpTo(S, n - 1) IN
       shorter \cup { Append(q, x) : q \in shorter, x \in S }

RequestIdle ==
  /\ token = [kind |-> "none", payload |-> NoPayload]
  /\ pc = 0
  /\ ctxUser = NoUser
  /\ ctxFlag = FALSE
  /\ guardIdx = 1
  /\ guardState = "running"
  /\ response = NoResponse
  /\ thrown = NoError
  /\ ran = <<>>
  /\ guardsRun = <<>>
  /\ failedAt = 0
  /\ lastGuard = NoGuardCheck
  /\ handlerReached = FALSE
  /\ denied = FALSE

\* no handler has parameters and no request is at a route handler
HandlerIdle ==
  /\ signature = <<>>
  /\ paramIdx = 0
  /\ params = <<>>
  /\ instanceCtx = 0
  /\ reqs = <<>>

NoLookup == [path |-> "", matched |-> 0, response |-> NoResponse]

\* no controller is built
BuildIdle ==
  /\ routes = <<>>
  /\ controllerMeta = FALSE
  /\ platform = "undefined"
  /\ app = <<>>
  /\ built = FALSE
  /\ lookup = NoLookup

NoInstance == [class |-> "", id |-> 0, by |-> "", deps |-> <<>>]

NoFailure == [name |-> "", chain |-> <<>>, token |-> "", message |-> <<>>]

\* resolve has not been called from outside
NoOutcome ==
  [n |-> 0, target |-> "", kind |-> "none", value |-> NoInstance,
   err |-> NoFailure, cachedBefore |-> {}, factoryBefore |-> {},
   constructedBefore |-> <<>>, seenBefore |-> {}]

\* the container is not in use
ContainerIdle ==
  /\ impl = "none"
  /\ paramTypes = <<>>
  /\ singletonMeta = {}
  /\ singletons = <<>>
  /\ factories = {}
  /\ resolutionStack = <<>>
  /\ serial = 0
  /\ constructed = <<>>
  /\ resolved = NoOutcome

\* no request is at the rate limiter and Redis holds no rate-limit key
LimiterIdle ==
  /\ clock = 0
  /\ zset = {}
  /\ expireAt = 0
  /\ pipelines = <<>>
  /\ checks = <<>>

\* delay is <<>> when the option is left out
NoRetryOptions == [attempts |-> 0, delay |-> <<>>, backoff |-> "undefined"]

\* no method wrapped by @Retry is called
RetryIdle ==
  /\ options = NoRetryOptions
  /\ attempt = 0
  /\ lastError = [name |-> "undefined", attempt |-> 0]
  /\ retryPc = "none"
  /\ invocations = <<>>
  /\ waits = <<>>

NoControllerArgs == [basePath |-> <<>>, platform |-> "undefined", version |-> "undefined"]

\* no controller path is computed
PathIdle ==
  /\ controllerArgs = NoControllerArgs
  /\ routePath = <<>>
  /\ basePath = <<>>
  /\ registered = <<>>

\* the queue is empty and nothing was delivered
ConsumerIdle ==
  /\ queue = <<>>
  /\ deliveries = <<>>
  /\ deadLetter = <<>>
  /\ acked = <<>>

\* the cache key is absent and nobody calls getOrSet
CacheIdle ==
  /\ store = "null"
  /\ callers = <<>>
  /\ factoryCalls = 0

\* a database or transaction handle; NoDb when the property is absent
Handle(kind, id) == [kind |-> kind, id |-> id]

NoDb == Handle("none", 0)

\* no service instance has a @Transaction method called
TxIdle ==
  /\ db = NoDb
  /\ txCalls = <<>>
  /\ txSerial = 0

ServicesIdle ==
  LimiterIdle /\ RetryIdle /\ PathIdle /\ ConsumerIdle /\ CacheIdle /\ TxIdle

NotChainIdle == HandlerIdle /\ BuildIdle /\ ContainerIdle /\ ServicesIdle

\* no route has decorators and no request walks a chain
ChainIdle ==
  /\ phase = "none"
  /\ declared = <<>>
  /\ classDeclared = <<>>
  /\ applyIdx = 0
  /\ guardsMeta = <<>>
  /\ methodMws = <<>>
  /\ classMws = <<>>
  /\ rateLimitMeta = FALSE
  /\ isPublic = FALSE
  /\ chain = <<>>
  /\ RequestIdle

RoutingIdle == ChainIdle /\ HandlerIdle /\ BuildIdle /\ ContainerIdle

\* the controller class is about to be defined: nothing is in the metadata store
Init ==
  /\ phase = "define"
  /\ declared \in { p \o m \o r \o g :
                       p \in PublicDecorators, m \in MiddlewareDecorators,
                       r \in RateLimitDecorators,
                       g \in SeqsUpTo(GuardDecorators, MaxGuardDecorators) }
  /\ classDeclared \in {<<>>, <<"AuthMiddleware">>}
  /\ applyIdx = Len(declared)
  /\ guardsMeta = <<>>
  /\ methodMws = <<>>
  /\ classMws = <<>>
  /\ rateLimitMeta = FALSE
  /\ isPublic = FALSE
  /\ chain = <<>>
  /\ RequestIdle
  /\ NotChainIdle

(* ---------------------- class definition and build -------------------- *)

\* the decorators of a method run bottom to top: the one written last first
ApplyDecorator ==
  /\ phase = "define"
  /\ applyIdx >= 1
  /\ LET d == declared[applyIdx] IN
     /\ guardsMeta' = GuardsAfter(guardsMeta, d)
     /\ methodMws' = IF d.kind = "Middleware" THEN Middleware(methodMws, d.list)
                                              ELSE methodMws
     /\ rateLimitMeta' = (rateLimitMeta \/ d.kind = "RateLimit")
     /\ isPublic' = (isPublic \/ d.kind = "Public")
  /\ applyIdx' = applyIdx - 1
  /\ UNCHANGED <<notChainVars, phase, declVars, classMws, chain, token, pc, ctxUser, ctxFlag,
                 response, thrown, ran, handlerReached, denied, guardVars>>

\* the class decorators run after the method decorators
ApplyClassMiddleware ==
  /\ phase = "define"
  /\ applyIdx = 0
  /\ classMws' = Middleware(classMws, classDeclared)
  /\ phase' = "build"
  /\ UNCHANGED <<notChainVars, declVars, applyIdx, guardsMeta, methodMws, rateLimitMeta,
                 isPublic, chain, token, pc, ctxUser, ctxFlag, response, thrown,
                 ran, handlerReached, denied, guardVars>>

\* HonoRouteBuilder.registerRoute
RegisterRoute ==
  /\ phase = "build"
  /\ chain' = BuildChain(isPublic, rateLimitMeta, classMws, methodMws, guardsMeta)
  /\ phase' = "ready"
  /\ UNCHANGED <<notChainVars, declVars, applyIdx, metaVars, token, pc, ctxUser, ctxFlag,
                 response, thrown, ran, handlerReached, denied, guardVars>>

(* ------------------------------ a request ----------------------------- *)

\* a request arrives at the route; the previous one, if any, is over
StartRequest ==
  /\ phase \in {"ready", "done"}
  /\ \E t \in Tokens : token' = t
  /\ phase' = "inflight"
  /\ pc' = 1
  /\ ctxUser' = NoUser
  /\ ctxFlag' = FALSE
  /\ guardIdx' = 1
  /\ guardState' = "running"
  /\ response' = NoResponse
  /\ thrown' = NoError
  /\ ran' = <<>>
  /\ guardsRun' = <<>>
  /\ failedAt' = 0
  /\ lastGuard' = NoGuardCheck
  /\ handlerReached' = FALSE
  /\ denied' = FALSE
  /\ UNCHANGED <<notChainVars, declVars, applyIdx, metaVars, chain>>

AtStage(kinds) ==
  /\ phase = "inflight"
  /\ pc \in 1..Len(chain)
  /\ chain[pc].kind \in kinds

\* the stage at pc ends with result r: the chain goes on, or the request is
\* answered, an error thrown by a stage being answered by app.onError
StageEnds(r) ==
  /\ ctxUser' = r.user
  /\ pc' = IF r.next THEN pc + 1 ELSE pc
  /\ phase' = IF r.next THEN "inflight" ELSE "done"
  /\ response' = IF r.err # NoError THEN onError(r.err)
                 ELSE IF r.resp # NoResponse THEN r.resp
                 ELSE response
  /\ thrown' = IF r.err # NoError THEN r.err ELSE thrown

\* the marker pushed first when the handler has @RateLimit
RateLimitFlag ==
  /\ AtStage({"rateLimitFlag"})
  /\ ctxFlag' = TRUE
  /\ StageEnds(CallNext(ctxUser))
  /\ ran' = Append(ran, chain[pc])
  /\ UNCHANGED <<notChainVars, declVars, applyIdx, metaVars, chain, token, handlerReached,
                 denied, guardVars>>

\* a class-level or method-level middleware
RunMiddleware ==
  /\ AtStage({"classMw", "methodMw"})
  /\ LET r == UseMiddleware(chain[pc].mw, ctxUser, token) IN
     /\ StageEnds(r)
     /\ denied' = (denied \/ r.resp # NoResponse \/ r.err # NoError)
  /\ ran' = Append(ran, chain[pc])
  /\ UNCHANGED <<notChainVars, declVars, applyIdx, metaVars, chain, token, ctxFlag,
                 handlerReached, guardVars>>

\* RateLimiter.middleware: the answer of the limiter store decides
RateLimitResult(allowed, user) ==
  IF allowed THEN CallNext(user)
  ELSE Respond(Json(429, "RATE_LIMIT_EXCEEDED"), user)

RateLimitMiddleware ==
  /\ AtStage({"rateLimit"})
  /\ \E allowed \in BOOLEAN :
       LET r == RateLimitResult(allowed, ctxUser) IN
       /\ StageEnds(r)
       /\ denied' = (denied \/ r.resp # NoResponse \/ r.err # NoError)
  /\ ran' = Append(ran, chain[pc])
  /\ UNCHANGED <<notChainVars, declVars, applyIdx, metaVars, chain, token, ctxFlag,
                 handlerReached, guardVars>>

\* the record of one guard check
GuardCheck(idx, guard, before, r) ==
  [idx |-> idx, guard |-> guard, before |-> before, ret |-> r.ret,
   err |-> r.err, after |-> r.user]

\* one iteration of executeGuards: the history and the loop variables
GuardIteration(r, st) ==
  /\ guardsRun' = Append(guardsRun, guardIdx)
  /\ failedAt' = IF failedAt = 0 /\ r.ret # "true" THEN guardIdx ELSE failedAt
  /\ lastGuard' = GuardCheck(guardIdx, guardsMeta[guardIdx], ctxUser, r)
  /\ guardState' = st
  /\ guardIdx' = IF st = "running" THEN guardIdx + 1 ELSE guardIdx

\* guardMiddleware: executeGuards checks the next guard and, when its loop
\* is over, the outcome is passed on, answered or thrown
GuardMiddleware ==
  /\ AtStage({"guards"})
  /\ guardState = "running"
  /\ guardIdx \in 1..Len(guardsMeta)
  /\ LET r == checkGuard(ctxUser, token, guardsMeta[guardIdx])
         st == GuardLoop(r.ret, guardIdx, Len(guardsMeta))
         m == GuardMiddlewareResult(st, r.err, r.user)
     IN /\ GuardIteration(r, st)
        /\ IF st = "running"
             THEN /\ ctxUser' = r.user
                  /\ UNCHANGED <<pc, phase, response, thrown, denied>>
             ELSE /\ StageEnds(m)
                  /\ denied' = (denied \/ m.resp # NoResponse \/ m.err # NoError)
  /\ ran' = IF guardsRun = <<>> THEN Append(ran, chain[pc]) ELSE ran
  /\ UNCHANGED <<notChainVars, declVars, applyIdx, metaVars, chain, token, ctxFlag,
                 handlerReached>>

\* the route handler: parameters, controller method, response
HandlerResult(outcome, user) ==
  CASE outcome = "ok"  -> Respond(Ok200, user)
    [] outcome = "zod" -> Respond(Json(400, "VALIDATION_ERROR"), user)
    [] OTHER           -> Throw(Err("Error", "handler failed", {}), user)

Handler ==
  /\ AtStage({"handler"})
  /\ \E outcome \in {"ok", "zod", "error"} :
       StageEnds(HandlerResult(outcome, ctxUser))
  /\ handlerReached' = TRUE
  /\ ran' = Append(ran, chain[pc])
  /\ UNCHANGED <<notChainVars, declVars, applyIdx, metaVars, chain, token, ctxFlag, denied,
                 guardVars>>

Next ==
  \/ ApplyDecorator
  \/ ApplyClassMiddleware
  \/ RegisterRoute
  \/ StartRequest
  \/ RateLimitFlag
  \/ RunMiddleware
  \/ RateLimitMiddleware
  \/ GuardMiddleware
  \/ Handler

Spec == Init /\ [][Next]_vars

(* ------------------- executeGuards called on its own ------------------ *)

\* number of guards in a list given to executeGuards
MaxGuards == 2

GuardDescriptors ==
  { Guard("AuthGuard", {}, {}, "undefined"), Guard("CustomGuard", {}, {}, "undefined") }
  \cup { Guard("RoleGuard", r, {}, a) :
           r \in {{}, {"admin"}, {"admin", "support"}},
           a \in {"true", "false", "undefined"} }
  \cup { Guard("PermissionGuard", {}, p, a) :
           p \in {{}, {"users:read", "users:write"}},
           a \in {"true", "false", "undefined"} }

\* executeGuards(c, guards) is entered with a list of guards and a request
\* context that holds a user or not
InitGuards ==
  /\ phase = "direct"
  /\ declared = <<>>
  /\ classDeclared = <<>>
  /\ applyIdx = 0
  /\ guardsMeta \in SeqsUpTo(GuardDescriptors, MaxGuards) \ {<<>>}
  /\ methodMws = <<>>
  /\ classMws = <<>>
  /\ rateLimitMeta = FALSE
  /\ isPublic = FALSE
  /\ chain = <<>>
  /\ \/ /\ token \in Tokens
        /\ ctxUser = NoUser
     \/ /\ token = [kind |-> "none", payload |-> NoPayload]
        /\ ctxUser \in { UserOf(p) : p \in Payloads }
  /\ pc = 0
  /\ ctxFlag = FALSE
  /\ guardIdx = 1
  /\ guardState = "running"
  /\ response = NoResponse
  /\ thrown = NoError
  /\ ran = <<>>
  /\ guardsRun = <<>>
  /\ failedAt = 0
  /\ lastGuard = NoGuardCheck
  /\ handlerReached = FALSE
  /\ denied = FALSE
  /\ NotChainIdle

\* one iteration of the loop of executeGuards
ExecuteGuardsStep ==
  /\ phase = "direct"
  /\ guardState = "running"
  /\ guardIdx \in 1..Len(guardsMeta)
  /\ LET r == checkGuard(ctxUser, token, guardsMeta[guardIdx])
         st == GuardLoop(r.ret, guardIdx, Len(guardsMeta))
     IN /\ GuardIteration(r, st)
        /\ ctxUser' = r.user
  /\ UNCHANGED <<notChainVars, phase, declVars, applyIdx, metaVars, chain, token, pc, ctxFlag,
                 response, thrown, ran, handlerReached, denied>>

NextGuards == ExecuteGuardsStep

SpecGuards == InitGuards /\ [][NextGuards]_vars

(* -------------------- the route handler and its parameters ------------- *)

\* number of parameters of the handler method
MaxParams == 2

\* number of requests that are at the handler of the route at the same time
MaxRequests == 2

\* JavaScript values: undefined, a string, a number, an object with named
\* fields, and the framework objects c.req and c of a request
Undefined == [t |-> "undefined"]

Str(s) == [t |-> "string", s |-> s]

Num(n) == [t |-> "number", n |-> n]

Obj(fields) == [t |-> "object", fields |-> fields]

HonoRequest(r) == [t |-> "HonoRequest", of |-> r]

Context(r) == [t |-> "Context", of |-> r]

\* collection[name], undefined when there is no such entry
Get(collection, name) ==
  IF name \in DOMAIN collection THEN collection[name] ELSE Undefined

\* strings the string rules of the schemas accept
Uuids == {"123e4567-e89b-12d3-a456-426614174000"}

Names == {"Test User"}

Emails == {"test@example.com"}

Passwords == {"s3cretpass"}

Issue(path, code) == [path |-> path, code |-> code]

Parsed(value) == [ok |-> TRUE, value |-> value, issues |-> {}]

Invalid(issues) == [ok |-> FALSE, value |-> Undefined, issues |-> issues]

\* z.string() with a rule the strings of accepted satisfy, at a path; code
\* is the issue of a string that breaks the rule
StringIssues(raw, accepted, path, code) ==
  IF raw.t # "string" THEN {Issue(path, "invalid_type")}
  ELSE IF raw.s \notin accepted THEN {Issue(path, code)}
  ELSE {}

\* z.string().uuid()
ParseUuid(raw) ==
  LET issues == StringIssues(raw, Uuids, "", "invalid_string") IN
  IF issues = {} THEN Parsed(raw) ELSE Invalid(issues)

\* CreateUserSchema: an object with name, email and password; the keys the
\* schema does not name are stripped
ParseCreateUser(raw) ==
  IF raw.t # "object" THEN Invalid({Issue("", "invalid_type")})
  ELSE LET issues == StringIssues(Get(raw.fields, "name"), Names, "name", "too_small")
                     \cup StringIssues(Get(raw.fields, "email"), Emails, "email", "invalid_string")
                     \cup StringIssues(Get(raw.fields, "password"), Passwords, "password", "too_small")
       IN IF issues = {}
            THEN Parsed(Obj([k \in {"name", "email", "password"} |-> raw.fields[k]]))
            ELSE Invalid(issues)

\* Number(v) of the digit strings of the requests, -1 standing for NaN
DigitStrings == ("0" :> 0) @@ ("1" :> 1) @@ ("2" :> 2) @@ ("10" :> 10)

ToNumber(str) == IF str \in DOMAIN DigitStrings THEN DigitStrings[str] ELSE -1

\* page and limit of PaginationSchema: an optional string turned into a
\* number, Number(v ?? default), that has to be an integer from 1, and at
\* most 100 for limit
PageField(raw, name, default) ==
  LET v == Get(raw.fields, name) IN
  IF v.t = "undefined" THEN Parsed(Num(default))
  ELSE IF v.t # "string" THEN Invalid({Issue(name, "invalid_type")})
  ELSE IF ToNumber(v.s) = -1 THEN Invalid({Issue(name, "invalid_type")})
  ELSE IF ToNumber(v.s) < 1 THEN Invalid({Issue(name, "too_small")})
  ELSE IF name = "limit" /\ ToNumber(v.s) > 100 THEN Invalid({Issue(name, "too_big")})
  ELSE Parsed(Num(ToNumber(v.s)))

ParsePagination(raw) ==
  IF raw.t # "object" THEN Invalid({Issue("", "invalid_type")})
  ELSE LET page == PageField(raw, "page", 1)
           limit == PageField(raw, "limit", 10)
       IN IF page.ok /\ limit.ok
            THEN Parsed(Obj(("page" :> page.value) @@ ("limit" :> limit.value)))
            ELSE Invalid(page.issues \cup limit.issues)

Schemas == {"UUIDSchema", "CreateUserSchema", "PaginationSchema"}

\* schema.parseAsync(raw)
parseAsync(schema, raw) ==
  CASE schema = "UUIDSchema"       -> ParseUuid(raw)
    [] schema = "CreateUserSchema" -> ParseCreateUser(raw)
    [] OTHER                       -> ParsePagination(raw)

\* a parameter decorator as it is written: its factory and its arguments, ""
\* for an argument that is not given
ParamDecorator(type, nameOrSchema, schema) ==
  [type |-> type, nameOrSchema |-> nameOrSchema, schema |-> schema]

\* a parameter without a decorator
Undecorated == ParamDecorator("", "", "")

ParamDecorators ==
  { ParamDecorator("body", "", ""),
    ParamDecorator("body", "CreateUserSchema", ""),
    ParamDecorator("param", "id", ""),
    ParamDecorator("param", "", ""),
    ParamDecorator("param", "id", "UUIDSchema"),
    ParamDecorator("param", "UUIDSchema", ""),
    ParamDecorator("query", "q", ""),
    ParamDecorator("query", "", ""),
    ParamDecorator("query", "PaginationSchema", ""),
    ParamDecorator("headers", "x-request-id", ""),
    ParamDecorator("headers", "", ""),
    ParamDecorator("user", "", "") }

\* ParamMetadata; name and schema are "" when undefined
ParamMetadata(type, index, name, schema) ==
  [type |-> type, index |-> index, name |-> name, schema |-> schema]

\* the metadata createParamDecorator(type)(nameOrSchema, schema) pushes for
\* the parameter at parameterIndex
createParamDecorator(d, parameterIndex) ==
  IF d.nameOrSchema \in Schemas
    THEN ParamMetadata(d.type, parameterIndex, "", d.nameOrSchema)
  ELSE IF d.nameOrSchema # ""
    THEN ParamMetadata(d.type, parameterIndex, d.nameOrSchema, d.schema)
  ELSE ParamMetadata(d.type, parameterIndex, "", "")

\* what a request carries: path captures, query string, headers, the body
\* ("malformed" when it is not JSON) and the user a middleware has stored
RequestData(param, query, header, body, user) ==
  [param |-> param, query |-> query, header |-> header, body |-> body,
   user |-> user]

Malformed == [t |-> "malformed"]

RequestInputs ==
  { RequestData("id" :> Str("abc"), "q" :> Str("tla"),
                "x-request-id" :> Str("req-1"),
                Obj("x" :> Num(1)), Undefined),
    RequestData("id" :> Str("123e4567-e89b-12d3-a456-426614174000"),
                ("q" :> Str("hono")) @@ ("page" :> Str("2")),
                <<>>,
                Obj(("name" :> Str("Test User")) @@ ("email" :> Str("test@example.com"))
                    @@ ("password" :> Str("s3cretpass")) @@ ("role" :> Str("admin"))),
                Obj("userId" :> Str("u-1"))),
    RequestData("id" :> Str("abc"), "page" :> Str("0"),
                "x-request-id" :> Str("req-3"),
                Obj("name" :> Str("")), Undefined),
    RequestData("id" :> Str("abc"), <<>>, <<>>, Malformed, Undefined) }

\* the outcome of a computation that may throw
Value(v) == [kind |-> "ok", value |-> v, issues |-> {}, err |-> NoError]

ZodError(issues) == [kind |-> "ZodError", value |-> Undefined, issues |-> issues, err |-> NoError]

Thrown(err) == [kind |-> "Error", value |-> Undefined, issues |-> {}, err |-> err]

\* schema.parseAsync(raw) as the resolver awaits it
Validated(schema, raw) ==
  LET p == parseAsync(schema, raw) IN
  IF p.ok THEN Value(p.value) ELSE ZodError(p.issues)

\* the switch of resolveParameters: the value of one parameter of request r
\* with data c
ExtractValue(param, c, r) ==
  CASE param.type = "body" ->
         IF c.body = Malformed
           THEN Thrown(Err("SyntaxError", "Unexpected token in JSON", {}))
         ELSE IF param.schema # "" THEN Validated(param.schema, c.body)
         ELSE Value(c.body)
    [] param.type = "param" ->
         LET raw == IF param.name # "" THEN Get(c.param, param.name) ELSE Obj(c.param)
         IN IF param.schema # "" /\ param.name # ""
              THEN Validated(param.schema, raw) ELSE Value(raw)
    [] param.type = "query" ->
         LET query == Obj(c.query)
         IN IF param.schema # "" THEN Validated(param.schema, query) ELSE Value(query)
    [] param.type = "headers" ->
         Value(IF param.name # "" THEN Get(c.header, param.name) ELSE Obj(c.header))
    [] param.type = "user" -> Value(c.user)
    [] param.type = "req" -> Value(HonoRequest(r))
    [] param.type = "res" -> Value(Context(r))
    [] OTHER -> Value(Undefined)

\* params.sort((a, b) => a.index - b.index)
SortByIndex(ps) == SortSeq(ps, LAMBDA a, b : a.index < b.index)

\* args after args[p.index] = undefined for every p
Prefilled(ps) ==
  LET size == IF ps = <<>> THEN 0
              ELSE 1 + CHOOSE m \in { ps[i].index : i \in DOMAIN ps } :
                         \A i \in DOMAIN ps : ps[i].index <= m
  IN [i \in 1..size |-> Undefined]

\* the position in args (counted from 1) of the value of param, the k-th
\* of the sorted list
ArgPositionInList(param, k) == k

ArgPosition(param, k) == param.index + 1

\* the loop of resolveParameters from the k-th parameter on: it ends with
\* the first value that throws
RECURSIVE ResolveLoop(_, _, _, _, _)
ResolveLoop(ps, k, args, c, r) ==
  IF k > Len(ps) THEN [kind |-> "ok", args |-> args, issues |-> {}, err |-> NoError]
  ELSE LET v == ExtractValue(ps[k], c, r) IN
       IF v.kind # "ok"
         THEN [kind |-> v.kind, args |-> args, issues |-> v.issues, err |-> v.err]
         ELSE ResolveLoop(ps, k + 1,
                          [args EXCEPT ![ArgPosition(ps[k], k)] = v.value], c, r)

\* resolveParameters(params, c), params being sorted already
resolveParameters(ps, c, r) == ResolveLoop(ps, 1, Prefilled(ps), c, r)

\* the answer of the handler wrapper to a ZodError
ValidationFailed(issues) ==
  [http |-> 400, status |-> "error", code |-> "VALIDATION_ERROR",
   message |-> "Validation failed", details |-> issues]

\* c.body(null)
EmptyBody == [http |-> 200, status |-> "", code |-> ""]

\* a request that has not reached the handler of the route
NewRequest(c) ==
  [pc |-> "new", c |-> c, kind |-> "", args |-> <<>>, invoked |-> FALSE,
   seen |-> -1, response |-> NoResponse]

\* the controller class is about to be defined and one request is on its
\* way to the handler
InitHandler ==
  /\ ChainIdle /\ BuildIdle /\ ContainerIdle /\ ServicesIdle
  /\ signature \in SeqsUpTo(ParamDecorators \cup {Undecorated}, MaxParams)
  /\ paramIdx = Len(signature)
  /\ params = <<>>
  /\ instanceCtx = 0
  /\ reqs \in { <<NewRequest(c)>> : c \in RequestInputs }

\* the parameter decorators of a method run from the last parameter to the
\* first
ApplyParamDecorator ==
  /\ paramIdx >= 1
  /\ params' = IF signature[paramIdx] = Undecorated THEN params
               ELSE Append(params, createParamDecorator(signature[paramIdx], paramIdx - 1))
  /\ paramIdx' = paramIdx - 1
  /\ UNCHANGED <<notHandlerVars, signature, instanceCtx, reqs>>

\* the wrapper binds the context of request r and calls resolveParameters,
\* which sorts the metadata in place and suspends
HandlerEnter(r) ==
  /\ paramIdx = 0
  /\ reqs[r].pc = "new"
  /\ instanceCtx' = r
  /\ params' = SortByIndex(params)
  /\ reqs' = [reqs EXCEPT ![r].pc = "resolving"]
  /\ UNCHANGED <<notHandlerVars, signature, paramIdx>>

CaughtAllRethrown(kind, issues, err) == onError(err)

\* the end of the catch block of the wrapper: a ZodError is answered, any
\* other error is thrown on to app.onError
Caught(kind, issues, err) ==
  IF kind = "ZodError" THEN ValidationFailed(issues) ELSE onError(err)

\* resolveParameters settles for request r: with the arguments the method
\* is called, and the LogActivity wrapper of the method reads this.__ctx
\* before it suspends; with an error the catch block runs
HandlerInvoke(r) ==
  /\ reqs[r].pc = "resolving"
  /\ LET res == resolveParameters(params, reqs[r].c, r) IN
     IF res.kind = "ok"
       THEN /\ reqs' = [reqs EXCEPT ![r].pc = "handling", ![r].args = res.args,
                                    ![r].invoked = TRUE, ![r].seen = instanceCtx]
            /\ UNCHANGED instanceCtx
       ELSE /\ instanceCtx' = 0
            /\ reqs' = [reqs EXCEPT ![r].pc = "done", ![r].kind = res.kind,
                                    ![r].response = Caught(res.kind, res.issues, res.err)]
  /\ UNCHANGED <<notHandlerVars, signature, paramIdx, params>>

\* what the method of the controller does in the end
MethodOutcomes == {"result", "undefined", "ZodError", "Error"}

\* the property __ctx after the method has settled
ContextKeptOnThrow(outcome, bound) ==
  IF outcome \in {"ZodError", "Error"} THEN bound ELSE 0

ContextAfter(outcome, bound) == 0

\* the method of request r settles: the wrapper removes __ctx and answers
HandlerSettles(r) ==
  /\ reqs[r].pc = "handling"
  /\ \E outcome \in MethodOutcomes :
       /\ instanceCtx' = ContextAfter(outcome, instanceCtx)
       /\ reqs' = [reqs EXCEPT
            ![r].pc = "done",
            ![r].kind = outcome,
            ![r].response =
               CASE outcome = "result"    -> Ok200
                 [] outcome = "undefined" -> EmptyBody
                 [] OTHER -> Caught(outcome, {Issue("", "custom")},
                                    Err("Error", "handler failed", {}))]
  /\ UNCHANGED <<notHandlerVars, signature, paramIdx, params>>

NextHandler ==
  \/ ApplyParamDecorator
  \/ \E r \in DOMAIN reqs : HandlerEnter(r)
  \/ \E r \in DOMAIN reqs : HandlerInvoke(r)
  \/ \E r \in DOMAIN reqs : HandlerSettles(r)

SpecHandler == InitHandler /\ [][NextHandler]_vars

\* handlers of the controller the requests in flight are sent to: one
\* without parameters and one with a validated body
InterleavedSignatures ==
  { <<>>, <<ParamDecorator("body", "CreateUserSchema", "")>> }

\* the controller class is about to be defined and several requests are on
\* their way to the same handler of the one controller instance
InitInterleaved ==
  /\ ChainIdle /\ BuildIdle /\ ContainerIdle /\ ServicesIdle
  /\ signature \in InterleavedSignatures
  /\ paramIdx = Len(signature)
  /\ params = <<>>
  /\ instanceCtx = 0
  /\ reqs \in [1..MaxRequests -> { NewRequest(c) : c \in RequestInputs }]

SpecInterleaved == InitInterleaved /\ [][NextHandler]_vars

(* ---------------------- build and the platform filter ----------------- *)

\* number of routes of the controller class
MaxRoutes == 2

\* RouteMetadata: the path and the platform of a route
RouteMetadata(path, platformOf) == [path |-> path, platform |-> platformOf]

\* the paths of the routes, each standing also for the URLs it matches
Paths == {"/", "/:id"}

\* the route a route decorator pushes: platform is options?.platform ?? 'all'
createRouteDecorator(path, platformOption) ==
  RouteMetadata(path, IF platformOption = "undefined" THEN "all" ELSE platformOption)

RouteDecorators ==
  { createRouteDecorator(path, option) :
      path \in Paths, option \in {"undefined", "all", "mobile", "web"} }

PlatformRoutesUnfiltered(rs, platformArg) == rs

\* routes.filter(...) of build
PlatformRoutes(rs, platformArg) ==
  SelectSeq(rs, LAMBDA route :
    IF platformArg = "undefined" THEN TRUE
    ELSE route.platform = "all" \/ route.platform = platformArg)

\* the class is defined: its route decorators have pushed their routes, and
\* build is about to be called with or without a platform
InitBuild ==
  /\ ChainIdle /\ HandlerIdle /\ ContainerIdle /\ ServicesIdle
  /\ routes \in SeqsUpTo(RouteDecorators, MaxRoutes)
  /\ controllerMeta \in BOOLEAN
  /\ platform \in {"undefined", "mobile", "web"}
  /\ app = <<>>
  /\ built = FALSE
  /\ lookup = NoLookup

\* HonoRouteBuilder.build: nothing is registered for a class without
\* controller metadata or without routes, otherwise the routes that pass
\* the platform filter are registered one after the other
Build ==
  /\ ~built
  /\ app' = IF ~controllerMeta \/ routes = <<>> THEN <<>>
            ELSE PlatformRoutes(routes, platform)
  /\ built' = TRUE
  /\ UNCHANGED <<notBuildVars, routes, controllerMeta, platform, lookup>>

\* the first route registered on the app that matches the URL, 0 if none
MatchedRoute(url) ==
  IF \E i \in DOMAIN app : app[i].path = url
    THEN CHOOSE i \in DOMAIN app :
           /\ app[i].path = url
           /\ \A j \in DOMAIN app : app[j].path = url => i <= j
    ELSE 0

\* a request to the app: the route it matches answers, a handler without
\* decorators returning its result; app.notFound answers when none matches
RequestPath ==
  /\ built
  /\ \E url \in Paths :
       lookup' = [path |-> url, matched |-> MatchedRoute(url),
                  response |-> IF MatchedRoute(url) # 0 THEN Ok200
                               ELSE Json(404, "NOT_FOUND")]
  /\ UNCHANGED <<notBuildVars, routes, controllerMeta, platform, app, built>>

NextBuild ==
  \/ Build
  \/ RequestPath

SpecBuild == InitBuild /\ [][NextBuild]_vars

(* ------------------------- the dependency container ------------------- *)

\* number of calls of resolve from outside the container
MaxResolves == 2

\* depth of nested calls at which the call stack of the runtime is full
MaxCallDepth == 5

Classes == {"A", "B", "C"}

\* design:paramtypes of the classes: the constructor parameters of each
DependencyGraphs ==
  { [c \in Classes |-> <<>>],
    ("A" :> <<"B">>) @@ ("B" :> <<"C">>) @@ ("C" :> <<>>),
    ("A" :> <<"B", "C">>) @@ ("B" :> <<"C">>) @@ ("C" :> <<>>),
    ("A" :> <<"A">>) @@ ("B" :> <<>>) @@ ("C" :> <<>>),
    ("A" :> <<"B">>) @@ ("B" :> <<"A">>) @@ ("C" :> <<>>),
    ("A" :> <<"C", "B">>) @@ ("B" :> <<"A">>) @@ ("C" :> <<>>),
    ("A" :> <<"B">>) @@ ("B" :> <<"C">>) @@ ("C" :> <<"A">>) }

\* an object: its class, its identity, who made it and what was injected
Instance(class, id, by, deps) ==
  [class |-> class, id |-> id, by |-> by, deps |-> deps]

\* the errors; the message is the sequence of its words
CircularDependencyError(names) ==
  [name |-> "CircularDependencyError", chain |-> names, token |-> "",
   message |-> <<"Circular dependency detected:">> \o names]

DependencyResolutionError(injectionToken, message) ==
  [name |-> "DependencyResolutionError", chain |-> <<>>, token |-> injectionToken,
   message |-> message]

RangeError ==
  [name |-> "RangeError", chain |-> <<>>, token |-> "",
   message |-> <<"Maximum call stack size exceeded">>]

\* the fields of the container a call of resolve reads and writes, with
\* the history of the constructors called
ContainerState ==
  [singletons |-> singletons, stack |-> resolutionStack, serial |-> serial,
   constructed |-> constructed]

Returned(st, value) == [st |-> st, kind |-> "ok", value |-> value, err |-> NoFailure]

Failed(st, err) == [st |-> st, kind |-> "throw", value |-> NoInstance, err |-> err]

\* Reflect.getMetadata('singleton', target)
isSingleton(target) == target \in singletonMeta

\* design:paramtypes of target
getParamTypes(target) == paramTypes[target]

\* the instance is handed back without being kept
CachedIfSingletonNever(st, target, instance) == st

\* this.singletons.set(target, instance) when target is marked singleton
CachedIfSingleton(st, target, instance) ==
  IF isSingleton(target)
    THEN [st EXCEPT !.singletons = (target :> instance) @@ st.singletons]
    ELSE st

\* new target(...dependencies)
Construct(st, target, dependencies) ==
  Returned([st EXCEPT !.serial = st.serial + 1,
                      !.constructed = Append(st.constructed, target)],
           Instance(target, st.serial + 1, "constructor", dependencies))

\* factory()
CallFactory(st, target) ==
  Returned([st EXCEPT !.serial = st.serial + 1],
           Instance(target, st.serial + 1, "factory", <<>>))

\* the name stays on the stack
PopSkipped(st) == st

\* this.resolutionStack.pop()
Pop(st) == [st EXCEPT !.stack = SubSeq(st.stack, 1, Len(st.stack) - 1)]

RECURSIVE resolve(_, _, _)
RECURSIVE resolveViaConstructor(_, _, _)
RECURSIVE ResolveDependencies(_, _, _, _, _)

\* Container.resolve of part_002, called at the given depth of nesting
resolve(st, target, depth) ==
  IF depth > MaxCallDepth THEN Failed(st, RangeError)
  ELSE IF \E i \in DOMAIN st.stack : st.stack[i] = target
    THEN Failed(st, CircularDependencyError(Append(st.stack, target)))
  ELSE IF target \in DOMAIN st.singletons
    THEN Returned(st, st.singletons[target])
  ELSE IF target \in factories
    THEN LET made == CallFactory(st, target)
         IN Returned(CachedIfSingleton(made.st, target, made.value), made.value)
  ELSE LET r == resolveViaConstructor([st EXCEPT !.stack = Append(st.stack, target)],
                                      target, depth)
       IN IF r.kind = "ok"
            THEN Returned(Pop(CachedIfSingleton(r.st, target, r.value)), r.value)
            ELSE Failed(Pop(r.st), r.err)

\* paramTypes.map(...) of resolveViaConstructor from the k-th parameter on:
\* a failure is thrown on wrapped in a DependencyResolutionError
ResolveDependencies(st, target, k, dependencies, depth) ==
  IF k > Len(getParamTypes(target)) THEN [st |-> st, kind |-> "ok",
                                          value |-> dependencies, err |-> NoFailure]
  ELSE LET paramType == getParamTypes(target)[k]
           r == resolve(st, paramType, depth + 1)
       IN IF r.kind = "ok"
            THEN ResolveDependencies(r.st, target, k + 1,
                                     Append(dependencies, r.value), depth)
            ELSE [st |-> r.st, kind |-> "throw", value |-> <<>>,
                  err |-> DependencyResolutionError(paramType,
                            <<"Failed to resolve dependency at index", ToString(k - 1),
                              "for", target, ":">> \o r.err.message)]

\* Container.resolveViaConstructor of part_002: the errors of the
\* dependencies are thrown on as they are
resolveViaConstructor(st, target, depth) ==
  LET d == ResolveDependencies(st, target, 1, <<>>, depth)
  IN IF d.kind = "ok" THEN Construct(d.st, target, d.value)
     ELSE Failed(d.st, d.err)

RECURSIVE resolveCore(_, _, _)
RECURSIVE InjectionsCore(_, _, _, _, _)

\* tokens.map(...) of resolve of core/container.ts from the k-th token on
InjectionsCore(st, target, k, injections, depth) ==
  IF k > Len(getParamTypes(target)) THEN [st |-> st, kind |-> "ok",
                                          value |-> injections, err |-> NoFailure]
  ELSE LET r == resolveCore(st, getParamTypes(target)[k], depth + 1)
       IN IF r.kind = "ok"
            THEN InjectionsCore(r.st, target, k + 1, Append(injections, r.value), depth)
            ELSE [st |-> r.st, kind |-> "throw", value |-> <<>>, err |-> r.err]

\* Container.resolve of core/container.ts: the singleton cache, then the
\* constructor; the nesting ends when the call stack is full
resolveCore(st, target, depth) ==
  IF depth > MaxCallDepth THEN Failed(st, RangeError)
  ELSE IF target \in DOMAIN st.singletons
    THEN Returned(st, st.singletons[target])
  ELSE LET d == InjectionsCore(st, target, 1, <<>>, depth)
       IN IF d.kind = "ok"
            THEN LET made == Construct(d.st, target, d.value)
                 IN Returned(CachedIfSingleton(made.st, target, made.value), made.value)
            ELSE Failed(d.st, d.err)

Containers == {"core/container.ts", "part_002"}

\* container.resolve(target) of the container at work
ContainerResolve(target) ==
  IF impl = "part_002" THEN resolve(ContainerState, target, 1)
  ELSE resolveCore(ContainerState, target, 1)

\* the classes are defined, with their constructor parameters and their
\* @Singleton() marks, and the container is new
InitContainer ==
  /\ ChainIdle /\ HandlerIdle /\ BuildIdle /\ ServicesIdle
  /\ impl \in Containers
  /\ paramTypes \in DependencyGraphs
  /\ singletonMeta \in {{}, {"B"}, Classes}
  /\ singletons = <<>>
  /\ factories = {}
  /\ resolutionStack = <<>>
  /\ serial = 0
  /\ constructed = <<>>
  /\ resolved = NoOutcome

\* container.registerSingleton(token, instance), at startup, with an
\* object made outside the container
RegisterSingleton(injectionToken) ==
  /\ injectionToken \notin DOMAIN singletons
  /\ resolved.n = 0
  /\ singletons' = (injectionToken :> Instance(injectionToken, 0, "registered", <<>>))
                   @@ singletons
  /\ UNCHANGED <<notContainerVars, registryVars, factories, resolutionStack,
                 serial, constructed, resolved>>

\* container.registerFactory(token, factory), at startup
RegisterFactory(injectionToken) ==
  /\ injectionToken \notin factories
  /\ resolved.n = 0
  /\ factories' = factories \cup {injectionToken}
  /\ UNCHANGED <<notContainerVars, registryVars, singletons, resolutionStack,
                 serial, constructed, resolved>>

RECURSIVE InstancesOf(_)

\* the objects a caller of resolve holds: the object returned and the
\* objects injected into it, at any depth
InstancesOf(value) ==
  IF value = NoInstance THEN {}
  ELSE {value} \cup UNION { InstancesOf(value.deps[i]) : i \in DOMAIN value.deps }

\* container.resolve(target) called from outside the container
Resolve(target) ==
  /\ resolved.n < MaxResolves
  /\ LET r == ContainerResolve(target) IN
     /\ singletons' = r.st.singletons
     /\ resolutionStack' = r.st.stack
     /\ serial' = r.st.serial
     /\ constructed' = r.st.constructed
     /\ resolved' = [n |-> resolved.n + 1, target |-> target, kind |-> r.kind,
                     value |-> r.value, err |-> r.err,
                     cachedBefore |-> DOMAIN singletons,
                     factoryBefore |-> factories,
                     constructedBefore |-> constructed,
                     seenBefore |-> resolved.seenBefore \cup InstancesOf(resolved.value)]
  /\ UNCHANGED <<notContainerVars, registryVars, factories>>

NextContainer ==
  \/ \E injectionToken \in Classes : RegisterSingleton(injectionToken)
  \/ \E injectionToken \in Classes : RegisterFactory(injectionToken)
  \/ \E target \in Classes : Resolve(target)

SpecContainer == InitContainer /\ [][NextContainer]_vars

(* ------------------------- the rate limiter --------------------------- *)

\* number of requests sent to the rate-limited route
MaxChecks == 3

\* the last millisecond of the clock
MaxClock == 4

\* @RateLimit({max, windowMs}) of the route, in requests and milliseconds
max == 2

windowMs == 3

\* the default skipPaths of a RateLimiter
skipPaths == { <<"health">>, <<"metrics">> }

\* path.startsWith(p), on paths as sequences of segments
StartsWith(path, p) ==
  Len(path) >= Len(p) /\ SubSeq(path, 1, Len(p)) = p

shouldSkip(path) == \E p \in skipPaths : StartsWith(path, p)

\* the whitelist of a limiter made by registerRoute: none is passed
whitelist == {}

isWhitelisted(identifier) == identifier \in whitelist

\* the routes of the controllers are mounted under /api
LimitedPaths == { <<"api", "web", "v1", "users">> }

\* defaultKeyGenerator: the client identifier of the request
Identifiers == { "unknown" }

\* RateLimitResult of check; resetTime and retryAfter follow from now and windowMs
CheckResult(allowed, current, limit, remaining) ==
  [allowed |-> allowed, current |-> current, limit |-> limit, remaining |-> remaining]

NoResult == CheckResult(FALSE, 0, 0, 0)

Max0(n) == IF n < 0 THEN 0 ELSE n

\* the request just added is left out of the count
CountedBeforeAdd(current, effectiveMax) ==
  CheckResult(current - 1 <= effectiveMax, current, effectiveMax,
              Max0(effectiveMax - current))

\* the try block of check after the pipeline has answered
Counted(current, effectiveMax) ==
  CheckResult(current <= effectiveMax, current, effectiveMax,
                  Max0(effectiveMax - current))

\* the request is refused when the pipeline raised
FailedClosed(effectiveMax) ==
  CheckResult(FALSE, 0, effectiveMax, effectiveMax)

\* the catch block of check: the pipeline raised
FailedOpen(effectiveMax) ==
  CheckResult(TRUE, 0, effectiveMax, effectiveMax)

\* the key of the sorted set as Redis sees it at the time of the server
LiveSet == IF expireAt # 0 /\ clock > expireAt THEN {} ELSE zset

\* zremrangebyscore(key, 0, start) then zadd(key, now, member)
AfterPipeline(members, now, member) ==
  { m \in members : m.score > now - windowMs } \cup { [score |-> now, member |-> member] }

Response429 == Json(429, "RATE_LIMIT_EXCEEDED")

\* what middleware does with the result of check: 429, or next()
AfterCheck(check, result, raised, applied) ==
  [check EXCEPT !.pc = "done",
                !.result = result,
                !.raised = raised,
                !.applied = applied,
                !.doneAt = clock,
                !.next = result.allowed,
                !.response = IF result.allowed THEN Ok200 ELSE Response429]

\* nothing is in Redis and no request has come
InitLimiter ==
  /\ RoutingIdle /\ RetryIdle /\ PathIdle /\ ConsumerIdle /\ CacheIdle /\ TxIdle
  /\ clock = 0
  /\ zset = {}
  /\ expireAt = 0
  /\ pipelines = <<>>
  /\ checks = <<>>

\* a millisecond passes
Tick ==
  /\ clock < MaxClock
  /\ clock' = clock + 1
  /\ UNCHANGED <<notLimiterVars, zset, expireAt, pipelines, checks>>

\* middleware up to await pipeline.exec(): the path is not skipped, the
\* identifier is not whitelisted, check takes now and sends the pipeline
MiddlewareSendsPipeline(path, identifier) ==
  /\ Len(checks) < MaxChecks
  /\ LET r == Len(checks) + 1 IN
     IF shouldSkip(path) \/ isWhitelisted(identifier)
       THEN /\ checks' = Append(checks,
                 [pc |-> "done", path |-> path, now |-> clock, sentAfter |-> {},
                  result |-> NoResult, raised |-> FALSE, applied |-> FALSE,
                  doneAt |-> clock, next |-> TRUE, response |-> Ok200])
            /\ UNCHANGED pipelines
       ELSE /\ checks' = Append(checks,
                 [pc |-> "awaiting", path |-> path, now |-> clock,
                  sentAfter |-> { k \in DOMAIN checks : checks[k].pc = "done" },
                  result |-> NoResult, raised |-> FALSE, applied |-> FALSE,
                  doneAt |-> 0, next |-> FALSE, response |-> NoResponse])
            /\ pipelines' = Append(pipelines, r)
  /\ UNCHANGED <<notLimiterVars, clock, zset, expireAt>>

\* Redis executes the oldest pipeline: zremrangebyscore, zadd, zcard,
\* pexpire; check returns and middleware answers 429 or calls next()
PipelineExecutes ==
  /\ pipelines # <<>>
  /\ LET r == Head(pipelines)
         members == AfterPipeline(LiveSet, checks[r].now, r)
     IN /\ zset' = members
        /\ expireAt' = clock + windowMs
        /\ checks' = [checks EXCEPT ![r] =
             AfterCheck(@, Counted(Cardinality(members), max), FALSE, TRUE)]
  /\ pipelines' = Tail(pipelines)
  /\ UNCHANGED <<notLimiterVars, clock>>

\* pipeline.exec() raises: the connection failed before or after Redis
\* ran the commands; check fails open and middleware calls next()
PipelineRaises(applied) ==
  /\ pipelines # <<>>
  /\ LET r == Head(pipelines) IN
     /\ IF applied
          THEN /\ zset' = AfterPipeline(LiveSet, checks[r].now, r)
               /\ expireAt' = clock + windowMs
          ELSE UNCHANGED <<zset, expireAt>>
     /\ checks' = [checks EXCEPT ![r] = AfterCheck(@, FailedOpen(max), TRUE, applied)]
  /\ pipelines' = Tail(pipelines)
  /\ UNCHANGED <<notLimiterVars, clock>>

NextLimiter ==
  \/ Tick
  \/ \E path \in LimitedPaths, identifier \in Identifiers :
       MiddlewareSendsPipeline(path, identifier)
  \/ PipelineExecutes
  \/ \E applied \in BOOLEAN : PipelineRaises(applied)

SpecLimiter == InitLimiter /\ [][NextLimiter]_vars

(* ------------------------- @Retry ------------------------------------- *)

\* the largest attempts option
MaxAttempts == 3

\* options.delay ?? 1000
DefaultDelay == 1000

\* the options of @Retry: delay and backoff may be left out
RetryOptions ==
  [attempts : 0..MaxAttempts, delay : {<<>>, <<0>>, <<200>>},
   backoff : {"undefined", "linear", "exponential"}]

RECURSIVE Pow2(_)
\* Math.pow(2, n)
Pow2(n) == IF n = 0 THEN 1 ELSE 2 * Pow2(n - 1)

\* waitTime after the failure of attempt k
waitTime(opts, k) ==
  LET baseDelay == IF opts.delay = <<>> THEN DefaultDelay ELSE opts.delay[1]
  IN IF opts.backoff = "exponential" THEN baseDelay * Pow2(k - 1)
     ELSE baseDelay * k

\* the error thrown by the k-th invocation of the wrapped method
ErrorOf(k) == [name |-> "Error", attempt |-> k]

\* the loop goes on after the last failure
MoreAttemptsAlways(opts, k) == TRUE

\* attempt < options.attempts
MoreAttempts(opts, k) == k < opts.attempts

\* the method is wrapped and not called yet
InitRetry ==
  /\ RoutingIdle /\ LimiterIdle /\ PathIdle /\ ConsumerIdle /\ CacheIdle /\ TxIdle
  /\ options \in RetryOptions
  /\ attempt = 0
  /\ lastError = [name |-> "undefined", attempt |-> 0]
  /\ retryPc = "called"
  /\ invocations = <<>>
  /\ waits = <<>>

\* the wrapper is called: let attempt = 1 and the first test of the loop
RetryEnter ==
  /\ retryPc = "called"
  /\ attempt' = 1
  /\ retryPc' = IF 1 <= options.attempts THEN "invoke" ELSE "thrown"
  /\ UNCHANGED <<notRetryVars, options, lastError, invocations, waits>>

\* await original.apply(this, args): it returns, or it throws and the
\* wrapper starts the timer or leaves the loop and throws lastError
RetryInvoke(outcome) ==
  /\ retryPc = "invoke"
  /\ invocations' = Append(invocations, [attempt |-> attempt, outcome |-> outcome,
                                         after |-> Len(waits)])
  /\ IF outcome = "returns"
       THEN /\ retryPc' = "returned"
            /\ UNCHANGED <<attempt, lastError>>
       ELSE /\ lastError' = ErrorOf(attempt)
            /\ IF MoreAttempts(options, attempt)
                 THEN retryPc' = "wait" /\ UNCHANGED attempt
                 ELSE /\ attempt' = attempt + 1
                      /\ retryPc' = IF attempt + 1 <= options.attempts
                                      THEN "invoke" ELSE "thrown"
  /\ UNCHANGED <<notRetryVars, options, waits>>

\* the timer of setTimeout(resolve, waitTime) fires: attempt++ and the
\* test of the loop
RetryTimerFires ==
  /\ retryPc = "wait"
  /\ waits' = Append(waits, [attempt |-> attempt, waitTime |-> waitTime(options, attempt)])
  /\ attempt' = attempt + 1
  /\ retryPc' = IF attempt + 1 <= options.attempts THEN "invoke" ELSE "thrown"
  /\ UNCHANGED <<notRetryVars, options, lastError, invocations>>

NextRetry ==
  \/ RetryEnter
  \/ \E outcome \in {"returns", "throws"} : RetryInvoke(outcome)
  \/ RetryTimerFires

SpecRetry == InitRetry /\ [][NextRetry]_vars

\* every invocation of the wrapped method settles and every timer fires
SpecRetryFair == SpecRetry /\ WF_vars(NextRetry)

(* ------------------------- the path of a route ------------------------ *)

\* a string is the sequence of its pieces: "/" and the words between the
\* slashes, so that "/users" is <<"/", "users">> and ":id" is <<":id">>;
\* a template literal concatenates the sequences
BasePaths == { <<>>, <<"/", "users">>, <<"/", "regions">> }

\* the path argument of @Get, @Post, ..: '' when left out
RoutePaths ==
  { <<>>, <<":id">>, <<"profile">>, <<":id", "/", "status">>, <<"/", ":id">> }

\* the arguments of @Controller(basePath, {platform, version})
ControllerArgs ==
  [basePath : BasePaths, platform : {"undefined", "web", "mobile"},
   version : {"undefined", "v1", "v2"}]

\* options?.version ?? 'v1'
VersionOf(args) == IF args.version = "undefined" THEN "v1" ELSE args.version

\* fullPath of Controller: `${platform}/${version}${basePath}`, or basePath
fullPath(args) ==
  IF args.platform # "undefined"
    THEN <<args.platform, "/", VersionOf(args)>> \o args.basePath
    ELSE args.basePath

\* `${basePath}${path}` of registerRoute
RouteTemplate(base, path) == base \o path

\* the path as the Hono app keeps it: with a leading slash
mergePath(path) ==
  IF path # <<>> /\ path[1] = "/" THEN path ELSE <<"/">> \o path

\* the decorators are written and none has run
InitPath ==
  /\ RoutingIdle /\ LimiterIdle /\ RetryIdle /\ ConsumerIdle /\ CacheIdle /\ TxIdle
  /\ controllerArgs \in ControllerArgs
  /\ routePath \in RoutePaths
  /\ basePath = <<>>
  /\ registered = <<>>

\* the class decorator @Controller runs: the metadata CONTROLLER is defined
Controller ==
  /\ basePath = <<>>
  /\ basePath' = <<fullPath(controllerArgs)>>
  /\ UNCHANGED <<notPathVars, controllerArgs, routePath, registered>>

\* registerRoute: app[method](`${basePath}${path}`, ...)
RegisterPath ==
  /\ basePath # <<>>
  /\ registered = <<>>
  /\ registered' = <<mergePath(RouteTemplate(basePath[1], routePath))>>
  /\ UNCHANGED <<notPathVars, controllerArgs, routePath, basePath>>

NextPath == Controller \/ RegisterPath

SpecPath == InitPath /\ [][NextPath]_vars

(* ------------------------- the message consumer ----------------------- *)

\* number of messages published to the queue
MaxMessages == 2

\* number of deliveries of one message the model follows
MaxDeliveries == 6

\* retryCount < 3
RetryLimit == 3

\* the header x-retry-count of a message: <<>> when it is absent
RetryHeaders == { <<>>, <<0>>, <<1>>, <<2>>, <<5>> }

\* a message: the header, and whether its processing fails every time
Messages(id) ==
  { [id |-> id, header |-> h, poison |-> f] : h \in RetryHeaders, f \in BOOLEAN }

\* (msg.properties.headers?.['x-retry-count'] || 0) + 1
retryCount(msg) == (IF msg.header = <<>> THEN 0 ELSE msg.header[1]) + 1

\* the test of the catch block: reject with requeue
Requeued(msg) == retryCount(msg) < RetryLimit

\* the messages are in the queue and none was delivered
InitConsumer ==
  /\ RoutingIdle /\ LimiterIdle /\ RetryIdle /\ PathIdle /\ CacheIdle /\ TxIdle
  /\ \E n \in 1..MaxMessages :
       /\ queue \in { q \in [1..n -> UNION { Messages(id) : id \in 1..n }] :
                        \A i \in 1..n : q[i].id = i }
       /\ deliveries = [i \in 1..n |-> 0]
  /\ deadLetter = <<>>
  /\ acked = <<>>

\* handleMessage with the oldest message of the queue: ack after the
\* event is processed; when processing throws, reject with or without
\* requeue; the broker puts a requeued message back as it is
HandleMessage(atHead) ==
  /\ queue # <<>>
  /\ LET msg == Head(queue) IN
     /\ deliveries[msg.id] < MaxDeliveries
     /\ deliveries' = [deliveries EXCEPT ![msg.id] = @ + 1]
     /\ IF ~msg.poison
          THEN /\ acked' = Append(acked, msg)
               /\ queue' = Tail(queue)
               /\ UNCHANGED deadLetter
          ELSE IF Requeued(msg)
            THEN /\ queue' = IF atHead THEN queue ELSE Append(Tail(queue), msg)
                 /\ UNCHANGED <<deadLetter, acked>>
            ELSE /\ deadLetter' = Append(deadLetter, msg)
                 /\ queue' = Tail(queue)
                 /\ UNCHANGED acked
  /\ UNCHANGED notConsumerVars

NextConsumer == \E atHead \in BOOLEAN : HandleMessage(atHead)

SpecConsumer == InitConsumer /\ [][NextConsumer]_vars

(* ------------------------- cache.getOrSet ----------------------------- *)

\* number of calls of getOrSet for the key
MaxCallers == 2

\* the values the factory can produce
FactoryValues == { "a", "b" }

\* a call of getOrSet(key, factory, options) before its first await
NewCaller(nx) ==
  [pc |-> "get", nx |-> nx, cached |-> "null", fresh |-> "null", ret |-> "null"]

\* cache.set(key, value, options): SET with NX keeps a value already there
cacheSet(value, nx) == IF nx /\ store # "null" THEN store ELSE value

\* the key is absent and the calls have begun
InitCache ==
  /\ RoutingIdle /\ LimiterIdle /\ RetryIdle /\ PathIdle /\ ConsumerIdle /\ TxIdle
  /\ store = "null"
  /\ \E n \in 1..MaxCallers : callers \in [1..n -> { NewCaller(nx) : nx \in BOOLEAN }]
  /\ factoryCalls = 0

\* const cached = await cache.get(key); if (cached !== null) return cached
CacheGet(i) ==
  /\ callers[i].pc = "get"
  /\ callers' = [callers EXCEPT ![i] =
       IF store # "null"
         THEN [@ EXCEPT !.pc = "done", !.cached = store, !.ret = store]
         ELSE [@ EXCEPT !.pc = "factory"]]
  /\ UNCHANGED <<notCacheVars, store, factoryCalls>>

\* const fresh = await factory()
CacheFactory(i, value) ==
  /\ callers[i].pc = "factory"
  /\ callers' = [callers EXCEPT ![i] = [@ EXCEPT !.pc = "set", !.fresh = value]]
  /\ factoryCalls' = factoryCalls + 1
  /\ UNCHANGED <<notCacheVars, store>>

\* await cache.set(key, fresh, options); return fresh
CacheSet(i) ==
  /\ callers[i].pc = "set"
  /\ store' = cacheSet(callers[i].fresh, callers[i].nx)
  /\ callers' = [callers EXCEPT ![i] = [@ EXCEPT !.pc = "done", !.ret = callers[i].fresh]]
  /\ UNCHANGED <<notCacheVars, factoryCalls>>

NextCache ==
  \E i \in DOMAIN callers :
    \/ CacheGet(i)
    \/ \E value \in FactoryValues : CacheFactory(i, value)
    \/ CacheSet(i)

SpecCache == InitCache /\ [][NextCache]_vars

(* ------------------------- @Transaction ------------------------------- *)

\* number of calls of the wrapped method on the instance
MaxTxCalls == 2

\* the database handle the service is constructed with
OriginalDb == Handle("db", 0)

\* a call of the wrapped method, not begun
NewTxCall ==
  [pc |-> "called", receiver |-> NoDb, tx |-> NoDb, originalDb |-> NoDb,
   used |-> <<>>]

\* the callback of transaction: const originalDb = this.db; this.db = tx
EnterCallback(call) ==
  [call EXCEPT !.pc = "running", !.originalDb = db]

\* this.db = originalDb, on return and on throw
DbRestored(call) == call.originalDb

\* the service instance exists and the calls are made
InitTx ==
  /\ RoutingIdle /\ LimiterIdle /\ RetryIdle /\ PathIdle /\ ConsumerIdle /\ CacheIdle
  /\ db \in {OriginalDb, NoDb}
  /\ \E n \in 1..MaxTxCalls : txCalls = [i \in 1..n |-> NewTxCall]
  /\ txSerial = 0

\* the wrapper: throw without this.db, else this.db.transaction(callback);
\* the handle calls the callback at once or after it has begun
TxEnter(i, atOnce) ==
  /\ txCalls[i].pc = "called"
  /\ IF db = NoDb
       THEN /\ txCalls' = [txCalls EXCEPT ![i] = [@ EXCEPT !.pc = "threw"]]
            /\ UNCHANGED <<db, txSerial>>
       ELSE LET begun == [txCalls[i] EXCEPT !.pc = "begun", !.receiver = db,
                                            !.tx = Handle("tx", txSerial + 1)]
            IN /\ txSerial' = txSerial + 1
               /\ IF atOnce
                    THEN /\ txCalls' = [txCalls EXCEPT ![i] = EnterCallback(begun)]
                         /\ db' = begun.tx
                    ELSE /\ txCalls' = [txCalls EXCEPT ![i] = begun]
                         /\ UNCHANGED db
  /\ UNCHANGED notTxVars

\* the handle calls the callback after BEGIN
TxCallback(i) ==
  /\ txCalls[i].pc = "begun"
  /\ txCalls' = [txCalls EXCEPT ![i] = EnterCallback(@)]
  /\ db' = txCalls[i].tx
  /\ UNCHANGED <<notTxVars, txSerial>>

\* the wrapped method runs a database operation on this.db
TxOperation(i) ==
  /\ txCalls[i].pc = "running"
  /\ txCalls[i].used = <<>>
  /\ txCalls' = [txCalls EXCEPT ![i] = [@ EXCEPT !.used = Append(@, db)]]
  /\ UNCHANGED <<notTxVars, db, txSerial>>

\* the wrapped method returns or throws: this.db = originalDb
TxFinish(i, outcome) ==
  /\ txCalls[i].pc = "running"
  /\ txCalls' = [txCalls EXCEPT ![i] = [@ EXCEPT !.pc = outcome]]
  /\ db' = DbRestored(txCalls[i])
  /\ UNCHANGED <<notTxVars, txSerial>>

NextTx ==
  \E i \in DOMAIN txCalls :
    \/ \E atOnce \in BOOLEAN : TxEnter(i, atOnce)
    \/ TxCallback(i)
    \/ TxOperation(i)
    \/ \E outcome \in {"returned", "threw"} : TxFinish(i, outcome)

SpecTx == InitTx /\ [][NextTx]_vars

(* ------------------------------ properties ---------------------------- *)

StageRank(kind) ==
  CASE kind = "rateLimitFlag" -> 0
    [] kind = "classMw"       -> 1
    [] kind = "methodMw"      -> 2
    [] kind = "rateLimit"     -> 3
    [] kind = "guards"        -> 4
    [] OTHER                  -> 5

KindsRan == { ran[i].kind : i \in DOMAIN ran }

RanOfKind(kind) == SelectSeq(ran, LAMBDA st : st.kind = kind)

\* C1: the stages of a route run in the order class-level middleware,
\* method-level middleware, rate limiter (only with a rate-limit descriptor),
\* guards (only with at least one guard), handler; the handler runs only
\* after every stage of the route before it ran and passed control on, and
\* no stage runs after one that answered or threw.
C1_StageOrder ==
  /\ \A i, j \in DOMAIN ran :
       i < j => \/ StageRank(ran[i].kind) < StageRank(ran[j].kind)
                \/ /\ ran[i].kind = ran[j].kind
                   /\ ran[i].kind \in {"classMw", "methodMw"}
  /\ "rateLimit" \in KindsRan => rateLimitMeta
  /\ "guards" \in KindsRan => Len(guardsMeta) > 0
  /\ denied => phase = "done" /\ ~handlerReached
  /\ handlerReached =>
       /\ RanOfKind("classMw") = StagesOf("classMw", IF isPublic THEN <<>> ELSE classMws)
       /\ RanOfKind("methodMw") = StagesOf("methodMw", IF isPublic THEN <<>> ELSE methodMws)
       /\ rateLimitMeta => "rateLimit" \in KindsRan
       /\ Len(guardsMeta) > 0 => "guards" \in KindsRan /\ guardState = "true"

\* a request went through all five kinds of stage and reached the handler
C1_Witness ==
  /\ handlerReached
  /\ KindsRan = {"rateLimitFlag", "classMw", "methodMw", "rateLimit", "guards", "handler"}
  /\ Len(guardsMeta) = 2

\* C2: guards are checked one after the other in list order and the check
\* stops at the first guard that fails: no later guard is checked and the
\* request context stays as the failing guard left it.
C2_GuardsShortCircuit ==
  /\ \A i \in DOMAIN guardsRun : guardsRun[i] = i
  /\ failedAt # 0 =>
       /\ Len(guardsRun) = failedAt
       /\ guardState \in {"false", "thrown"}
       /\ lastGuard.idx = failedAt
       /\ ctxUser = lastGuard.after

\* the first of two guards failed and the second, an AuthGuard that would
\* have stored the user of a valid token, was not checked
C2_Witness ==
  /\ phase = "direct"
  /\ failedAt = 1
  /\ Len(guardsMeta) = 2
  /\ guardsMeta[2].name = "AuthGuard"
  /\ token.kind = "valid"
  /\ ~ctxUser.present

\* the roles a token carries: its roles list, or else its single role
TokenRoles(p) == IF p.rolesKind = "list" THEN p.roles ELSE {p.role}

\* a valid token whose role claims are well formed
GoodToken == token.kind = "valid" /\ token.payload.rolesKind # "bad"

\* C3 (as claimed): when a guard of a route fails the handler is not
\* invoked, an Unauthorized failure is answered 401 and a Forbidden failure
\* 403, and any other exception leaves the chain unchanged for the global
\* error handler.
C3_GuardFailureStatus ==
  (phase = "done" /\ failedAt # 0) =>
    /\ ~handlerReached
    /\ lastGuard.ret = "false" => response.http = 403
    /\ (lastGuard.ret = "throw" /\ lastGuard.err.prefix = "Unauthorized") =>
         response.http = 401 /\ thrown = NoError
    /\ (lastGuard.ret = "throw" /\ lastGuard.err.prefix = "Forbidden") =>
         response.http = 403 /\ thrown = NoError
    /\ (lastGuard.ret = "throw" /\ lastGuard.err.prefix \notin {"Unauthorized", "Forbidden"}) =>
         thrown = lastGuard.err

\* the chain of the scenario: class-level AuthMiddleware and nothing else
\* but the given guards
ScenarioRoute(guards) ==
  /\ phase = "done"
  /\ classMws = <<"AuthMiddleware">>
  /\ methodMws = <<>>
  /\ ~isPublic
  /\ ~rateLimitMeta
  /\ guardsMeta = guards

AdminOnly == <<Guard("RoleGuard", {"admin"}, {}, "undefined")>>

\* POST "/" of the scenario: 401 without credential, 403 without the admin
\* role, the handler with it
ScenarioPost ==
  ScenarioRoute(AdminOnly) =>
    /\ token.kind = "none" => response.http = 401 /\ ~handlerReached
    /\ (GoodToken /\ "admin" \notin TokenRoles(token.payload)) =>
         response.http = 403 /\ ~handlerReached
    /\ (GoodToken /\ "admin" \in TokenRoles(token.payload)) =>
         handlerReached /\ response.http \notin {401, 403}

\* C4 (as claimed): with a class-level AuthMiddleware, GET "/" is reachable
\* without credentials and POST "/" with @RequireRole('admin') is answered
\* 401, 403 or reaches the handler.
C4_ScenarioAsClaimed ==
  /\ (ScenarioRoute(<<>>) /\ token.kind = "none") => handlerReached
  /\ ScenarioPost

\* C4 (amended): the class-level AuthMiddleware also protects GET "/": it
\* is answered 401 without credentials and reaches the handler with any
\* valid credential; POST "/" is as claimed.
C4_ScenarioAmended ==
  /\ (ScenarioRoute(<<>>) /\ token.kind = "none") =>
       response.http = 401 /\ ~handlerReached
  /\ (ScenarioRoute(<<>>) /\ token.kind = "valid") => handlerReached
  /\ ScenarioPost

\* POST "/" of the scenario answered 200 for a token with the admin role
C4_Witness ==
  /\ ScenarioRoute(AdminOnly)
  /\ token.kind = "valid"
  /\ token.payload.role = "admin"
  /\ response = Ok200

\* C5 (as claimed): on a route protected only by @RequireRole('admin') a
\* valid token reaches the handler when its role is admin and is answered
\* 403 when it is not.
C5_RoleGuardAlone ==
  (/\ phase = "done"
   /\ classMws = <<>>
   /\ methodMws = <<>>
   /\ ~rateLimitMeta
   /\ guardsMeta = AdminOnly
   /\ GoodToken) =>
    IF "admin" \in TokenRoles(token.payload)
      THEN handlerReached /\ response.http \notin {401, 403}
      ELSE response.http = 403 /\ ~handlerReached

\* the guard list of the decorators in the order they are written
RECURSIVE GuardsInWrittenOrder(_)
GuardsInWrittenOrder(decls) ==
  IF decls = <<>> THEN <<>>
  ELSE GuardsAfter(<<>>, Head(decls)) \o GuardsInWrittenOrder(Tail(decls))

\* C6 (as claimed): the guard decorators of a handler append to one list,
\* and the stored list is in the order the decorators are written, so
\* @RequireAuth() above @RequireRole('admin') gives [AuthGuard, RoleGuard].
C6_GuardsInDeclarationOrder ==
  phase \in {"build", "ready", "inflight", "done"} =>
    guardsMeta = GuardsInWrittenOrder(declared)

\* C7: for required roles that are not empty and a user in the context,
\* RoleGuard passes iff all of them (requireAll) or one of them (otherwise)
\* is among the user's roles, these being the roles list or else the single
\* role; when it does not pass it throws a Forbidden error.
C7_RoleGuard ==
  (/\ lastGuard.guard.name = "RoleGuard"
   /\ lastGuard.guard.roles # {}
   /\ lastGuard.before.present
   /\ lastGuard.before.payload.rolesKind # "bad") =>
    LET required == lastGuard.guard.roles
        owned == TokenRoles(lastGuard.before.payload)
        passes == IF lastGuard.guard.requireAll = "true"
                    THEN \A r \in required : r \in owned
                    ELSE \E r \in required : r \in owned
    IN /\ lastGuard.ret = "true" <=> passes
       /\ ~passes => lastGuard.ret = "throw" /\ lastGuard.err.prefix = "Forbidden"

\* requireAll with roles [admin, support] failed for a user with roles [admin]
C7_Witness ==
  /\ lastGuard.guard = Guard("RoleGuard", {"admin", "support"}, {}, "true")
  /\ lastGuard.before.present
  /\ lastGuard.before.payload.rolesKind = "list"
  /\ lastGuard.before.payload.roles = {"admin"}
  /\ lastGuard.ret = "throw"

\* C8: PermissionGuard requires all permissions unless requireAll is
\* false: given no requireAll it passes only if every required permission
\* is among the user's, given requireAll false it passes if one is.
C8_PermissionGuard ==
  (/\ lastGuard.guard.name = "PermissionGuard"
   /\ lastGuard.guard.permissions # {}
   /\ lastGuard.before.present
   /\ lastGuard.before.payload.permsKind # "bad") =>
    LET required == lastGuard.guard.permissions
        owned == IF lastGuard.before.payload.permsKind = "list"
                   THEN lastGuard.before.payload.permissions ELSE {}
    IN /\ lastGuard.guard.requireAll \in {"undefined", "true"} =>
            (lastGuard.ret = "true" <=> \A q \in required : q \in owned)
       /\ lastGuard.guard.requireAll = "false" =>
            ((\E q \in required : q \in owned) => lastGuard.ret = "true")

\* without a requireAll option, [users:read, users:write] failed for a user
\* who has only users:read
C8_Witness ==
  /\ lastGuard.guard = Guard("PermissionGuard", {}, {"users:read", "users:write"}, "undefined")
  /\ lastGuard.before.present
  /\ lastGuard.before.payload.permsKind = "list"
  /\ lastGuard.before.payload.permissions = {"users:read"}
  /\ lastGuard.ret = "throw"

KnownGuards == {"AuthGuard", "RoleGuard", "PermissionGuard"}

C10_UnauthorizedCodes ==
  response.http = 401 =>
    /\ response.status = "error"
    /\ response.code \in {"UNAUTHORIZED", "TOKEN_EXPIRED", "INVALID_TOKEN"}

\* C10 (amended): a 401 answer has a body with status "error" and a code
\* among UNAUTHORIZED, TOKEN_EXPIRED, INVALID_TOKEN, AUTHENTICATION_FAILED.
C10_UnauthorizedCodesAmended ==
  response.http = 401 =>
    /\ response.status = "error"
    /\ response.code \in {"UNAUTHORIZED", "TOKEN_EXPIRED", "INVALID_TOKEN",
                          "AUTHENTICATION_FAILED"}

\* AuthMiddleware answered 401 for a token whose verification failed with a
\* plain error
C10_Witness ==
  /\ response.http = 401
  /\ token.kind = "other"
  /\ failedAt = 0
  /\ response.code = "AUTHENTICATION_FAILED"

\* the first parameter, by index, whose value throws for request r is
\* params[i], and it throws a ZodError: the validation of params[i] fails
ValidationFailsAt(r, i) ==
  /\ ExtractValue(params[i], reqs[r].c, r).kind = "ZodError"
  /\ \A j \in DOMAIN params :
       params[j].index < params[i].index =>
         ExtractValue(params[j], reqs[r].c, r).kind = "ok"

\* C11: when the schema validation of a parameter fails the method of the
\* controller is not invoked and the request is answered 400 with code
\* VALIDATION_ERROR, message "Validation failed" and the list of the
\* violations of that schema, never 401 or 403.
C11_ValidationFailure ==
  \A r \in DOMAIN reqs : \A i \in DOMAIN params :
    (paramIdx = 0 /\ ValidationFailsAt(r, i)) =>
      /\ ~reqs[r].invoked
      /\ reqs[r].pc \notin {"handling"}
      /\ reqs[r].pc = "done" =>
           /\ reqs[r].response.http = 400
           /\ reqs[r].response.status = "error"
           /\ reqs[r].response.code = "VALIDATION_ERROR"
           /\ reqs[r].response.message = "Validation failed"
           /\ reqs[r].response.details = parseAsync(params[i].schema,
                                                    IF params[i].type = "body"
                                                      THEN reqs[r].c.body
                                                      ELSE IF params[i].type = "query"
                                                      THEN Obj(reqs[r].c.query)
                                                      ELSE Get(reqs[r].c.param, params[i].name)).issues
           /\ reqs[r].response.details # {}

\* a body without a valid name, email and password was answered 400 by a
\* handler whose second parameter is @ValidatedBody(CreateUserSchema)
C11_Witness ==
  /\ Len(signature) = 2
  /\ signature[2] = ParamDecorator("body", "CreateUserSchema", "")
  /\ signature[1] = ParamDecorator("param", "id", "")
  /\ reqs[1].pc = "done"
  /\ ~reqs[1].invoked
  /\ reqs[1].response.http = 400
  /\ Issue("name", "too_small") \in reqs[1].response.details
  /\ Issue("email", "invalid_type") \in reqs[1].response.details

\* the route is among the routes registered on the app
Registered(route) == \E i \in DOMAIN app : app[i] = route

\* what C12 says of one route of the controller
FilteredByPlatform(route) ==
  /\ Registered(route) => route.platform = "all" \/ route.platform = platform
  /\ (route.platform # "all" /\ route.platform # platform) =>
       /\ ~Registered(route)
       /\ (lookup.path = route.path /\ lookup.matched = 0) =>
            lookup.response.http = 404
       /\ lookup.path = route.path => lookup.response.http # 403

\* C12 (as claimed): build registers a route only if its platform is "all"
\* or equals the platform argument of the call; a route of another platform
\* is not registered, and a request to its path is answered not-found.
C12_PlatformFilter ==
  built => \A i \in DOMAIN routes : FilteredByPlatform(routes[i])

\* C12 (amended): when build is called with a platform argument it
\* registers a route only if its platform is "all" or equals the argument,
\* and a request to the path of a route left out is answered not-found;
\* when build is called without a platform argument it registers every
\* route of the controller.
C12_PlatformFilterAmended ==
  built =>
    /\ platform # "undefined" => \A i \in DOMAIN routes : FilteredByPlatform(routes[i])
    /\ (platform = "undefined" /\ controllerMeta) => app = routes

\* a controller whose only route is for mobile was built for web and a
\* request to the path of the route was answered 404 NOT_FOUND
C12_Witness ==
  /\ built
  /\ platform = "web"
  /\ controllerMeta
  /\ routes = <<RouteMetadata("/:id", "mobile")>>
  /\ lookup.path = "/:id"
  /\ lookup.response = Json(404, "NOT_FOUND")

\* C13 (as claimed): on a route marked @Public() no class-level and no
\* method-level middleware runs, and a request without credential is not
\* answered 401 but reaches the handler (unless the rate limiter of the
\* route has answered 429).
C13_PublicSkipsAuthentication ==
  (isPublic /\ phase \in {"inflight", "done"}) =>
    /\ \A i \in DOMAIN ran : ran[i].kind \notin {"classMw", "methodMw"}
    /\ (phase = "done" /\ token.kind = "none") =>
         /\ response.http # 401
         /\ response.http # 429 => handlerReached

\* request r is between the binding of its context and the end of its
\* invocation
InFlight(r) == reqs[r].pc \in {"resolving", "handling"}

\* C14: the context bound onto the controller instance is removed when an
\* invocation ends, whether the method returned, the method threw or the
\* resolution or validation of a parameter failed: while no request is in
\* flight the instance does not carry the property.
C14_ContextRemoved ==
  (\A r \in DOMAIN reqs : ~InFlight(r)) => instanceCtx = 0

\* one request has ended with a failed validation and the other with an
\* error thrown by the method, and the property is gone
C14_Witness ==
  /\ reqs[1].pc = "done" /\ ~reqs[1].invoked /\ reqs[1].kind = "ZodError"
  /\ reqs[2].pc = "done" /\ reqs[2].invoked /\ reqs[2].kind = "Error"
  /\ reqs[2].seen = 2
  /\ instanceCtx = 0

\* C15 (as claimed): the context the method of a request observes on the
\* controller instance is the context of that request, also when other
\* requests to the controller are in flight; never another one, never none.
C15_OwnContextObserved ==
  \A r \in DOMAIN reqs : reqs[r].invoked => reqs[r].seen = r

\* C16: the method is called with, at the position of each parameter that
\* has a descriptor, the value extracted for that descriptor, whatever the
\* order the descriptors are stored in; with @Param('id') at index 0 and
\* @Body() at index 1, path id "abc" and body {x: 1}, the arguments are
\* ["abc", {x: 1}].
C16_ArgsByIndex ==
  \A r \in DOMAIN reqs :
    reqs[r].invoked =>
      /\ \A i \in DOMAIN params :
           /\ params[i].index + 1 \in DOMAIN reqs[r].args
           /\ reqs[r].args[params[i].index + 1] =
                ExtractValue(params[i], reqs[r].c, r).value
      /\ \A k \in DOMAIN reqs[r].args :
           (\A i \in DOMAIN params : params[i].index + 1 # k) =>
             reqs[r].args[k] = Undefined
      /\ (/\ signature = <<ParamDecorator("param", "id", ""), ParamDecorator("body", "", "")>>
          /\ reqs[r].c.param = ("id" :> Str("abc"))
          /\ reqs[r].c.body = Obj("x" :> Num(1))) =>
           reqs[r].args = <<Str("abc"), Obj("x" :> Num(1))>>

\* the handler (@Param('id') id, @Body() body), whose descriptors were
\* stored body first, was called with ["abc", {x: 1}]
C16_Witness ==
  /\ signature = <<ParamDecorator("param", "id", ""), ParamDecorator("body", "", "")>>
  /\ reqs[1].invoked
  /\ reqs[1].args = <<Str("abc"), Obj("x" :> Num(1))>>
  /\ reqs[1].pc = "handling"

\* the collection of request data a descriptor of this type reads
CollectionOf(type, c) ==
  CASE type = "param" -> c.param
    [] type = "query" -> c.query
    [] OTHER          -> c.header

\* C17 (as claimed): the argument of a path-param, query or header
\* descriptor without schema is the single value under the declared name
\* when a name is declared and the whole collection when none is.
C17_NamedOrWhole ==
  \A r \in DOMAIN reqs : \A i \in DOMAIN params :
    (/\ reqs[r].invoked
     /\ params[i].type \in {"param", "query", "headers"}
     /\ params[i].schema = "") =>
      reqs[r].args[params[i].index + 1] =
        IF params[i].name # ""
          THEN Get(CollectionOf(params[i].type, reqs[r].c), params[i].name)
          ELSE Obj(CollectionOf(params[i].type, reqs[r].c))

\* C18 (as claimed): the indices of the descriptors of a handler are unique
\* and contiguous from 0, and the method is not called when they leave a
\* gap below the highest index.
C18_NoGapInvoked ==
  /\ \A i, j \in DOMAIN params : params[i].index = params[j].index => i = j
  /\ \A r \in DOMAIN reqs :
       reqs[r].invoked =>
         \A i \in DOMAIN params : \A k \in 0..params[i].index :
           \E j \in DOMAIN params : params[j].index = k

\* the constructor of class a has a parameter of class b
Requires(a, b) == \E i \in DOMAIN paramTypes[a] : paramTypes[a][i] = b

\* class a requires class b directly or through other classes
RequiresTransitively(a, b) ==
  \/ Requires(a, b)
  \/ \E c \in Classes : Requires(a, c) /\ Requires(c, b)
  \/ \E c, d \in Classes : Requires(a, c) /\ Requires(c, d) /\ Requires(d, b)

\* C19 (as claimed): with nothing registered, resolve() of a class that
\* requires itself directly or transitively throws a CircularDependency
\* error whose chain leads from that class, dependency by dependency, back
\* to it; resolve(A) with A requiring B and B requiring A fails with the
\* chain [A, B, A].
C19_CircularDependencyThrown ==
  (/\ resolved.n > 0
   /\ resolved.cachedBefore = {}
   /\ resolved.factoryBefore = {}
   /\ RequiresTransitively(resolved.target, resolved.target)) =>
    /\ resolved.kind = "throw"
    /\ resolved.err.name = "CircularDependencyError"
    /\ Len(resolved.err.chain) >= 2
    /\ resolved.err.chain[1] = resolved.target
    /\ resolved.err.chain[Len(resolved.err.chain)] = resolved.target
    /\ \A i \in 1..(Len(resolved.err.chain) - 1) :
         Requires(resolved.err.chain[i], resolved.err.chain[i + 1])
    /\ (/\ Requires("A", "B") /\ Requires("B", "A")
        /\ paramTypes["A"] = <<"B">> /\ resolved.target = "A") =>
         resolved.err.chain = <<"A", "B", "A">>

\* C20 (as claimed): resolve(T) returns the cached or registered instance
\* of T when there is one; otherwise, when a factory is registered for T,
\* it returns the result of the factory and the container does not call
\* the constructor of T.
C20_CacheThenFactory ==
  resolved.n > 0 =>
    /\ resolved.target \in resolved.cachedBefore =>
         /\ resolved.kind = "ok"
         /\ resolved.value.class = resolved.target
         /\ constructed = resolved.constructedBefore
    /\ (resolved.target \notin resolved.cachedBefore
        /\ resolved.target \in resolved.factoryBefore) =>
         /\ resolved.kind = "ok"
         /\ resolved.value = Instance(resolved.target, resolved.value.id, "factory", <<>>)
         /\ constructed = resolved.constructedBefore

\* the number of times the container called the constructor of a class
TimesConstructed(class) ==
  Cardinality({ i \in DOMAIN constructed : constructed[i] = class })

\* the objects of a class handed out so far, returned or injected
HandedOut(class) ==
  { v \in resolved.seenBefore \cup InstancesOf(resolved.value) : v.class = class }

\* C21: the constructor of a class marked singleton runs at most once in a
\* container and every resolution, direct or as a dependency, hands out
\* one and the same instance of it; a class that is not marked singleton
\* and not registered is constructed anew by every resolution of it.
C21_SingletonOnce ==
  /\ \A class \in singletonMeta :
       /\ TimesConstructed(class) <= 1
       /\ Cardinality(HandedOut(class)) <= 1
  /\ (/\ resolved.n > 0
      /\ resolved.kind = "ok"
      /\ resolved.target \notin singletonMeta
      /\ resolved.target \notin resolved.cachedBefore
      /\ resolved.target \notin resolved.factoryBefore) =>
       /\ resolved.value.by = "constructor"
       /\ resolved.value.id = serial
       /\ resolved.value \notin resolved.seenBefore
       /\ constructed # resolved.constructedBefore
       /\ constructed[Len(constructed)] = resolved.target

\* a singleton was resolved a second time and came from the cache, and so
\* did a dependency of a class constructed anew
C21_Witness ==
  /\ resolved.n = 2
  /\ resolved.kind = "ok"
  /\ resolved.target \notin singletonMeta
  /\ resolved.value.by = "constructor"
  /\ \E class \in singletonMeta :
       /\ TimesConstructed(class) = 1
       /\ \E v \in resolved.seenBefore : v.class = class /\ v.by = "constructor"
       /\ \E i \in DOMAIN resolved.value.deps : resolved.value.deps[i] \in resolved.seenBefore

\* the stacks a nested call of resolve can find: class names in progress
StacksFound ==
  {<<>>} \cup { <<a>> : a \in Classes }
         \cup { <<a, b>> : a \in Classes, b \in Classes }

\* the failure reports a circular dependency, itself or in what it quotes
ReportsCycle(err) ==
  \/ err.name = "CircularDependencyError"
  \/ \E i \in DOMAIN err.message : err.message[i] = "Circular dependency detected:"

\* from the class, the constructor parameters lead to a class that
\* requires itself
ReachesCycle(class) ==
  \E c \in Classes :
    /\ c = class \/ RequiresTransitively(class, c)
    /\ RequiresTransitively(c, c)

\* C30: whenever no resolve() is in progress the resolution stack is
\* empty; a resolve() called with any stack, succeeding or failing, leaves
\* the stack as it found it; and a resolve() reports a circular dependency
\* only when the constructor parameters of its class lead to a cycle.
C30_StackRestored ==
  /\ resolutionStack = <<>>
  /\ impl = "part_002" =>
       \A stack \in StacksFound : \A target \in Classes :
         resolve([ContainerState EXCEPT !.stack = stack], target, 1).st.stack = stack
  /\ (resolved.kind = "throw" /\ ReportsCycle(resolved.err)) =>
       ReachesCycle(resolved.target)

\* a resolve() failed after constructing a dependency, and a later
\* resolve() of a class outside the cycle succeeded
C30_Witness ==
  /\ impl = "part_002"
  /\ resolved.n = 2
  /\ resolved.kind = "ok"
  /\ ~ReachesCycle(resolved.target)
  /\ resolved.constructedBefore # <<>>
  /\ resolved.seenBefore = {}

\* the requests up to r were sent one after the other, each after the
\* answer to the one before, and Redis answered each of them
Successive(r) ==
  \A k \in 1..r :
    /\ checks[k].pc = "done"
    /\ ~checks[k].raised
    /\ checks[k].sentAfter = 1..(k - 1)

\* the requests up to r were sent and answered within the window that the
\* first of them opens
WithinOneWindow(r) ==
  \A k \in 1..r : checks[k].doneAt < checks[1].now + windowMs

AllowedByCount ==
  { k \in DOMAIN checks :
      checks[k].pc = "done" /\ ~checks[k].raised /\ checks[k].result.allowed }

\* C28 (as claimed): as long as Redis answers, whatever the interleaving
\* of the checks, the requests of one client that the limiter allows with
\* timestamps inside one interval of length windowMs are at most max.
C28_WindowNeverExceeded ==
  (\A k \in DOMAIN checks : ~checks[k].raised) =>
    \A r \in AllowedByCount :
      Cardinality({ k \in AllowedByCount :
                      /\ checks[k].now > checks[r].now - windowMs
                      /\ checks[k].now <= checks[r].now }) <= max

\* C29: when the Redis pipeline raises, check reports allowed with
\* remaining equal to the limit, and the middleware calls the next stage:
\* it neither answers 429 nor raises.
C29_FailOpen ==
  \A r \in DOMAIN checks :
    (checks[r].pc = "done" /\ checks[r].raised) =>
      /\ checks[r].result.allowed
      /\ checks[r].result.remaining = checks[r].result.limit
      /\ checks[r].result.limit = max
      /\ checks[r].next
      /\ checks[r].response = Ok200

\* the pipeline raised for a request that the count would have refused
C29_Witness ==
  \E r \in DOMAIN checks :
    /\ checks[r].pc = "done"
    /\ checks[r].raised
    /\ checks[r].applied
    /\ checks[r].next
    /\ Cardinality({ m \in zset : m.score > checks[r].now - windowMs }) > max

\* the wait the claim gives after the k-th failure
ClaimedWait(opts, k) ==
  LET d == IF opts.delay = <<>> THEN DefaultDelay ELSE opts.delay[1]
  IN IF opts.backoff = "exponential" THEN d * Pow2(k - 1) ELSE d * k

RetryEnded == retryPc \in {"returned", "thrown"}

\* the invocations and the waits of a call of a method under @Retry
RetryBounded ==
  /\ Len(invocations) <= options.attempts
  /\ \A i \in DOMAIN invocations :
       /\ invocations[i].attempt = i
       /\ invocations[i].after = i - 1
       /\ invocations[i].outcome = "returns" =>
            i = Len(invocations) /\ retryPc = "returned"
  /\ \A k \in DOMAIN waits :
       /\ k < options.attempts
       /\ k <= Len(invocations)
       /\ invocations[k].outcome = "throws"
       /\ waits[k] = [attempt |-> k, waitTime |-> ClaimedWait(options, k)]
  /\ retryPc = "returned" =>
       invocations[Len(invocations)].outcome = "returns"
  /\ (retryPc = "thrown" /\ options.attempts >= 1) =>
       /\ Len(invocations) = options.attempts
       /\ Len(waits) = options.attempts - 1
       /\ invocations[Len(invocations)].outcome = "throws"
       /\ lastError = ErrorOf(options.attempts)

\* C23: a method under @Retry({attempts: n, delay: d, backoff}) is invoked
\* at most n times per call; the first success is returned with no further
\* invocation; after the k-th failure with k < n the wrapper waits d*k
\* (linear) or d*2^(k-1) (exponential); after the n-th failure it throws
\* that error without waiting; the call always ends.
C23_RetryTerminates == []RetryBounded /\ <>RetryEnded

\* all the attempts failed, with exponential waits between them
C23_Witness ==
  /\ options.attempts = MaxAttempts
  /\ options.backoff = "exponential"
  /\ options.delay = <<200>>
  /\ retryPc = "thrown"
  /\ Len(waits) = MaxAttempts - 1
  /\ waits[2].waitTime = 400

\* the route path does not begin with a slash
Relative(path) == path = <<>> \/ path[1] # "/"

\* /{platform}/{version}{base}/{p}, and /{platform}/{version}{base} for
\* an empty p
ClaimedPath(args, path) ==
  LET prefix == <<"/", args.platform, "/", VersionOf(args)>> \o args.basePath
  IN IF path = <<>> THEN prefix ELSE prefix \o <<"/">> \o path

\* C24 (as claimed): a route declared with relative path p on a controller
\* declared @Controller(base, {platform, version}) is registered at
\* /{platform}/{version}{base}/{p}, and at /{platform}/{version}{base}
\* when p is empty.
C24_RoutePath ==
  (/\ registered # <<>>
   /\ controllerArgs.platform # "undefined"
   /\ Relative(routePath)) =>
    registered[1] = ClaimedPath(controllerArgs, routePath)

\* C25 (as claimed): a message whose processing fails on every delivery
\* is requeued on its first failures only: it is delivered at most once
\* and 3 times more, and after that it is in the dead letters and no
\* longer in the queue.
C25_RequeueBounded ==
  \A i \in DOMAIN deliveries :
    /\ deliveries[i] <= 1 + RetryLimit
    /\ deliveries[i] >= 1 + RetryLimit =>
         \A k \in DOMAIN queue : queue[k].id # i

\* C26 (as claimed): when calls of getOrSet for the same absent key
\* overlap, the factory is invoked at most once and every caller returns
\* the same value, the one left in the cache.
C26_GetOrSetAtomic ==
  /\ factoryCalls <= 1
  /\ \A i, k \in DOMAIN callers :
       (callers[i].pc = "done" /\ callers[k].pc = "done") =>
         callers[i].ret = callers[k].ret
  /\ (\A i \in DOMAIN callers : callers[i].pc = "done") =>
       \A i \in DOMAIN callers : callers[i].ret = store

TxCompleted(i) == txCalls[i].pc \in {"returned", "threw"}

\* C27 (as claimed): once every call of a @Transaction method has
\* returned or thrown, overlapping calls on the same instance included,
\* the db property of the instance is the original database handle again;
\* and the database operations of a call use the transaction of that call.
C27_DbRestored ==
  /\ (\A i \in DOMAIN txCalls : TxCompleted(i)) => db.kind # "tx"
  /\ \A i \in DOMAIN txCalls :
       \A k \in DOMAIN txCalls[i].used : txCalls[i].used[k] = txCalls[i].tx

====
